---- MODULE Spec2Model ----
(***************************************************************************)
(* tuipaz: modal note editor with note-to-note links.                      *)
(*                                                                         *)
(* The module holds the state of the whole program and several             *)
(* specifications over it.                                                 *)
(*   Spec           the application: screens, the link map of the editor,  *)
(*                  the anchor table of the text buffer and the persisted  *)
(*                  notes and link rows (events.rs, db_mac.rs).            *)
(*   SpecKeys       the keys of the main screen and the anchors.           *)
(*   SpecTitle      links of a note whose title is edited.                 *)
(*   SpecSave       links, deletion, undo and redo between saves.          *)
(*   SpecGesture    link gestures that are completed, cancelled or fail.   *)
(*   SpecList       the note list, the load screen and deleting notes.     *)
(*   SpecCount, SpecGoto, SpecPending, SpecMove, SpecImmediate,            *)
(*   SpecInsert, SpecSearch, SpecFind, SpecHop, SpecComplete, SpecTrap     *)
(*                  the command interpreter of the editor (editor.rs) on   *)
(*                  the text of a note without links: mode, pending        *)
(*                  command, count, text and cursor, each under the keys   *)
(*                  of one family.                                         *)
(***************************************************************************)
EXTENDS Integers, Sequences, FiniteSets, TLC

(***************************************************************************)
(* Bounds of the model.                                                    *)
(***************************************************************************)
\* notes that can exist in the notes table (AUTOINCREMENT ids 1..MaxNotes)
MaxNotes == 2
\* anchors one text buffer hands out (ids 0..MaxLinks-1)
MaxLinks == 2
\* storage faults injected in one run
MaxFaults == 1
\* anchor geometry: rows 0..MaxRow, start columns 0..MaxCol
MaxRow == 0
MaxCol == 1

\* the text of the editor: lines, and characters in a line
MaxLines == 3
MaxLineLen == 3
\* digits in num_buf and characters in cmd_buf
MaxDigits == 5
MaxCmdBuf == 2
\* characters typed in the search bar
MaxPattern == 1

None == "None"
\* Option<i64>::None of editor.note_id; the ids of notes start at 1
NoNote == 0
\* the title " Untitled " of a fresh editor; a typed title n is <<n>>
Untitled == <<>>

NoteIds == 1..MaxNotes
\* the titles a user types: one for each note that can exist
Titles == {<<n>> : n \in 1..MaxNotes}
LinkIds == 0..(MaxLinks - 1)
LinkLen == 2
Geoms == {[row |-> r, start_col |-> s, end_col |-> s + LinkLen] :
            r \in 0..MaxRow, s \in 0..MaxCol}

VARIABLES
    \* ---- App (app.rs) ----
    app_state,          \* AppState, plus "Failed" once run() returned an error
    current_screen,
    prev_screen,
    active_widget,
    btns,               \* states of the buttons New, Load of the welcome screen
    btn_idx,
    input_action,       \* user_input.action
    pending_link,       \* Option<TextAreaLink>
    note_identifiers,   \* note_list.note_identifiers
    selected,           \* note_list.selected
    \* ---- Editor (editor.rs), the part events.rs works on ----
    title,
    note_id,
    links,              \* editor.links : text_id -> Link
    \* ---- TextArea (editor.body), the anchor interface ----
    ta_links,           \* body.links : id -> anchor
    ta_deleted_link_ids,\* body.deleted_link_ids
    ta_next_link_id,    \* body.next_link_id
    \* ---- persisted storage (notes.db) ----
    db_notes,           \* notes table: id -> row
    db_links,           \* links table, in rowid order
    db_next_id,         \* AUTOINCREMENT counter of notes
    \* ---- bookkeeping of the model ----
    faults,             \* storage faults injected so far
    gestures,           \* link gestures completed so far
    user_msg,           \* kind of the message the popup shows
    error,              \* the Err that run() returned to main, if it has
    \* ---- Editor (editor.rs), the command interpreter ----
    mode,               \* EditorMode
    cmd_state,          \* CommandState
    num_buf,            \* Vec<u32>: the digits of the count
    cmd_buf,            \* String: the characters of the pending command
    prev_cursor_col,
    \* ---- TextArea (editor.body), the text ----
    lines,              \* the lines, each a sequence of characters
    cursor,             \* <<row, col>>
    selection,          \* <<>> or <<the position where the selection started>>
    search,             \* the search pattern, <<>> when no search is active
    hop,                \* the positions the hop pattern matched
    alignment,
    fresh,              \* the yank register and the undo history are empty
    \* ---- the bars of the main screen (app.rs) ----
    searchbar_open,     \* searchbar_state = Open
    searchbar_text,     \* searchbar.input
    sidebar_open,       \* sidebar_state = Open
    build,              \* the build of the program that runs
    done                \* what the last key did (for the properties)

app_vars == <<app_state, current_screen, prev_screen, active_widget, btns, btn_idx,
              input_action,
              pending_link, note_identifiers, selected, user_msg>>
editor_link_vars == <<title, note_id, links>>
ta_vars == <<ta_links, ta_deleted_link_ids, ta_next_link_id>>
db_vars == <<db_notes, db_links, db_next_id>>
interpreter_vars == <<mode, cmd_state, num_buf, cmd_buf, prev_cursor_col>>
text_vars == <<lines, cursor, selection, search, hop, alignment, fresh>>
bar_vars == <<searchbar_open, searchbar_text, sidebar_open>>
vars_editor == <<interpreter_vars, text_vars, bar_vars, build, done>>

(***************************************************************************)
(* Sequences and maps.                                                     *)
(***************************************************************************)
Range(s) == {s[i] : i \in DOMAIN s}

EmptyMap == [x \in {} |-> None]

MapPut(m, k, v) == [x \in (DOMAIN m) \cup {k} |-> IF x = k THEN v ELSE m[x]]

MapRemove(m, k) == [x \in (DOMAIN m) \ {k} |-> m[x]]

RECURSIVE SortByTextareaId(_)
\* the rows of S in increasing order of textarea_id
SortByTextareaId(S) ==
    IF S = {} THEN <<>>
    ELSE LET x == CHOOSE y \in S : \A z \in S : y.textarea_id <= z.textarea_id
         IN <<x>> \o SortByTextareaId(S \ {x})

(***************************************************************************)
(* Link (editor.rs) and DbNoteLink (db_mac.rs).                            *)
(***************************************************************************)
\* Link::to_db_link; `as i64` of a small usize is the same number
to_db_link(link) ==
    [parent_note_id |-> link.id,
     textarea_id    |-> link.text_id,
     textarea_row   |-> link.row,
     start_col      |-> link.start_col,
     end_col        |-> link.end_col,
     linked_note_id |-> link.linked_id]

\* Link::from_db_link
from_db_link(db_link) ==
    [id        |-> db_link.parent_note_id,
     text_id   |-> db_link.textarea_id,
     linked_id |-> db_link.linked_note_id,
     row       |-> db_link.textarea_row,
     start_col |-> db_link.start_col,
     end_col   |-> db_link.end_col,
     saved     |-> TRUE,
     updated   |-> FALSE,
     deleted   |-> FALSE]

\* Link::to_textarea_link
to_textarea_link(link) ==
    [id        |-> link.text_id,
     row       |-> link.row,
     start_col |-> link.start_col,
     end_col   |-> link.end_col,
     edited    |-> FALSE,
     deleted   |-> link.deleted]

\* Link::moved
moved(link, ta_link) ==
    \/ link.row # ta_link.row
    \/ link.start_col # ta_link.start_col
    \/ link.end_col # ta_link.end_col

check_links_to_update(link) == ~link.deleted /\ link.saved /\ link.updated

check_links_to_saveMutant(link) == ~link.deleted

check_links_to_save(link) == ~link.deleted /\ ~link.saved

check_links_to_delete(link) == link.deleted /\ link.saved

\* the ids of the links of map m that pass the filter
LinkIdsWhere(m, Filter(_)) == {k \in DOMAIN m : Filter(m[k])}

ToUpdate(m) == LinkIdsWhere(m, check_links_to_update)
ToInsert(m) == LinkIdsWhere(m, check_links_to_save)
ToDelete(m) == LinkIdsWhere(m, check_links_to_delete)

(***************************************************************************)
(* DbMac (db_mac.rs): the statements, as functions of the table contents.  *)
(* The links table has an AUTOINCREMENT id of its own and no uniqueness    *)
(* on (parent_note_id, textarea_id): it is a sequence of rows in rowid     *)
(* order.                                                                  *)
(***************************************************************************)
\* one UPDATE of DbMac::update_links
UpdateOneLink(rows, link, parent_note_id) ==
    [i \in DOMAIN rows |->
        IF /\ rows[i].parent_note_id = parent_note_id
           /\ rows[i].linked_note_id = link.linked_note_id
           /\ rows[i].textarea_id = link.textarea_id
        THEN [rows[i] EXCEPT !.textarea_row = link.textarea_row,
                             !.start_col = link.start_col,
                             !.end_col = link.end_col]
        ELSE rows[i]]

RECURSIVE DbUpdateLinks(_, _, _)
\* DbMac::update_links: one UPDATE for each link handed in
DbUpdateLinks(rows, db_link_set, parent_note_id) ==
    IF db_link_set = {} THEN rows
    ELSE LET link == CHOOSE l \in db_link_set : TRUE
         IN DbUpdateLinks(UpdateOneLink(rows, link, parent_note_id),
                          db_link_set \ {link}, parent_note_id)

\* DbMac::save_links: one INSERT of all rows; parent_note_id is the bound
\* parameter, not the field of the link
DbSaveLinksMutant(rows, db_link_set, parent_note_id) ==
    rows \o [i \in 1..Cardinality(db_link_set) |->
                [SortByTextareaId(db_link_set)[i]
                    EXCEPT !.parent_note_id = parent_note_id,
                           !.start_col = SortByTextareaId(db_link_set)[i].end_col,
                           !.end_col = SortByTextareaId(db_link_set)[i].start_col]]

DbSaveLinks(rows, db_link_set, parent_note_id) ==
    rows \o [i \in 1..Cardinality(db_link_set) |->
                [SortByTextareaId(db_link_set)[i]
                    EXCEPT !.parent_note_id = parent_note_id]]

\* DbMac::delete_links: DELETE ... WHERE (parent_note_id = p AND textarea_id = t) OR ...
DbDeleteLinks(rows, link_identifiers) ==
    SelectSeq(rows, LAMBDA r : <<r.parent_note_id, r.textarea_id>> \notin link_identifiers)

\* DbMac::load_note_links
DbLoadNoteLinks(rows, parent_note_id) ==
    SelectSeq(rows, LAMBDA r : r.parent_note_id = parent_note_id)

\* DbMac::delete_note, the statement on the links table
DbDeleteNoteLinks(rows, note) ==
    SelectSeq(rows, LAMBDA r : r.parent_note_id # note /\ r.linked_note_id # note)

\* rows.into_iter().map(..).collect::<HashMap<..>>(): a later row of the same
\* textarea_id replaces an earlier one
RowsToLinks(rows) ==
    [t \in {rows[i].textarea_id : i \in DOMAIN rows} |->
        from_db_link(rows[CHOOSE i \in DOMAIN rows :
                            /\ rows[i].textarea_id = t
                            /\ \A j \in DOMAIN rows : rows[j].textarea_id = t => j <= i])]

(***************************************************************************)
(* Storage faults: what the environment may make fail in one handler.      *)
(*   insert  the INSERT of a new note by input_new_note                    *)
(*   note    the statement of save_note on the notes table                 *)
(*   begin   db.begin()                                                    *)
(*   legs    the link legs that return an error                            *)
(*   applied the UPDATEs of the update leg that ran before it failed       *)
(*   commit  tx.commit()                                                   *)
(*   load    the SELECT of load_note that fails, if any                    *)
(***************************************************************************)
Legs == {"update_links", "save_links", "delete_links"}

NoFault == [insert |-> FALSE, note |-> FALSE, begin |-> FALSE, legs |-> {},
            applied |-> {}, commit |-> FALSE, load |-> None]

IsFault(f) ==
    f.insert \/ f.note \/ f.begin \/ f.legs # {} \/ f.commit \/ f.load # None

\* the faults an INSERT of a new note can meet
InsertFaults == {NoFault, [NoFault EXCEPT !.insert = TRUE]}

\* the legs of a synchronization of map m that execute a statement
LegsWithWork(m) ==
    (IF ToUpdate(m) # {} THEN {"update_links"} ELSE {}) \cup
    (IF ToInsert(m) # {} THEN {"save_links"} ELSE {}) \cup
    (IF ToDelete(m) # {} THEN {"delete_links"} ELSE {})

\* the faults a save without links can meet
NoteFaults == {NoFault, [NoFault EXCEPT !.note = TRUE]}

\* the faults a save of map m can meet
SaveFaults(m) ==
    NoteFaults \cup {[NoFault EXCEPT !.begin = TRUE], [NoFault EXCEPT !.commit = TRUE]}
    \cup UNION {{[NoFault EXCEPT !.legs = F, !.applied = A] :
                    A \in IF "update_links" \in F
                          THEN (SUBSET ToUpdate(m)) \ {ToUpdate(m)}
                          ELSE {{}}} :
                F \in (SUBSET LegsWithWork(m)) \ {{}}}

(***************************************************************************)
(* Events::sync_db_links (events.rs).  Every statement of the three legs   *)
(* is `.execute(db)`: it runs on the pool, in autocommit mode.  The        *)
(* transaction `tx` is handed to DbMac and receives no statement, so       *)
(* tx.commit() and tx.rollback() have nothing to apply and nothing to      *)
(* undo.  The three legs all run, whatever the earlier ones returned.      *)
(***************************************************************************)
\* Events::update_links: the rows after the leg
UpdateLeg(rows, m, parent_note_id, f) ==
    IF ToUpdate(m) = {} THEN rows
    ELSE DbUpdateLinks(rows,
            {to_db_link(m[k]) :
                k \in IF "update_links" \in f.legs THEN f.applied ELSE ToUpdate(m)},
            parent_note_id)

\* Events::save_links: the rows after the leg
SaveLeg(rows, m, parent_note_id, f) ==
    IF ToInsert(m) = {} \/ "save_links" \in f.legs THEN rows
    ELSE DbSaveLinks(rows, {to_db_link(m[k]) : k \in ToInsert(m)}, parent_note_id)

\* Events::delete_links: the rows after the leg
DeleteLeg(rows, m, parent_note_id, f) ==
    IF ToDelete(m) = {} \/ "delete_links" \in f.legs THEN rows
    ELSE DbDeleteLinks(rows, {<<parent_note_id, m[k].text_id>> : k \in ToDelete(m)})

\* the legs the error message of sync_db_links names, for the legs that failed
ErrorNames(failed) ==
    IF failed = {"save_links"} THEN {"update_links"}
    ELSE failed

\* Events::sync_db_links
sync_db_links(rows, m, parent_note_id, f) ==
    IF f.begin
    THEN [ok |-> FALSE, rows |-> rows, failed |-> {}, named |-> {},
          statements |-> [update_links |-> {}, save_links |-> {}, delete_links |-> {}]]
    ELSE LET rows1 == UpdateLeg(rows, m, parent_note_id, f)
             rows2 == SaveLeg(rows1, m, parent_note_id, f)
             rows3 == DeleteLeg(rows2, m, parent_note_id, f)
         IN [ok     |-> f.legs = {} /\ ~f.commit,
             rows   |-> rows3,
             failed |-> f.legs,
             named  |-> ErrorNames(f.legs),
             \* the links each leg handed to DbMac
             statements |-> [update_links |-> ToUpdate(m),
                             save_links   |-> ToInsert(m),
                             delete_links |-> ToDelete(m)]]

(***************************************************************************)
(* Events::save_note (events.rs 837-935).  S holds the fields of App the   *)
(* function reads and writes; the result is S after the call, with         *)
(* `result` ("ok", "err" or "panic") and what the synchronization did.     *)
(***************************************************************************)
NoSync == [ok |-> TRUE, rows |-> <<>>, failed |-> {}, named |-> {},
           statements |-> [update_links |-> {}, save_links |-> {}, delete_links |-> {}]]

\* the title is free in the notes table for note `self` (UNIQUE on title)
TitleFree(notes, t, self) == \A n \in DOMAIN notes : n # self => notes[n].title # t

\* the links after a synchronization that returned `ok` (events.rs 883-910)
LinksAfterSyncMutant(m, ok) ==
    [k \in DOMAIN m |-> IF ~m[k].saved THEN [m[k] EXCEPT !.saved = TRUE] ELSE m[k]]

LinksAfterSync(m, ok) ==
    IF ok
    THEN [k \in DOMAIN m |-> IF ~m[k].saved THEN [m[k] EXCEPT !.saved = TRUE] ELSE m[k]]
    ELSE m

\* NoteList::replace
replace(nids, nid) ==
    [i \in DOMAIN nids |-> IF nids[i].id = nid.id THEN [nids[i] EXCEPT !.title = nid.title]
                           ELSE nids[i]]

\* NoteList::update
update(nids, nid) == Append(nids, nid)

\* `!matches!(links.len(), 0)`: the flag the callers hand to save_note
\* (events.rs 458 on the anchors of the text, events.rs 1105 on the link map)
HasLinksMutant(m) == TRUE

HasLinks(m) == DOMAIN m # {}

save_note(S, has_links, f) ==
    LET updated == S.note_id # NoNote
        write_ok ==
            /\ ~f.note
            /\ updated => S.note_id \in DOMAIN S.db_notes
            /\ TitleFree(S.db_notes, S.title, S.note_id)
        parent_id == IF updated THEN S.note_id ELSE S.db_next_id
        popup == [S EXCEPT !.prev_screen = S.current_screen, !.current_screen = "Popup"]
    IN
    IF ~write_ok
    THEN [popup EXCEPT !.user_msg = "Error saving note!", !.result = "err"]
    ELSE IF updated /\ \A i \in DOMAIN S.note_identifiers : S.note_identifiers[i].id # parent_id
    THEN [S EXCEPT !.result = "panic",
                   !.db_notes = MapPut(S.db_notes, parent_id,
                                   [title |-> S.title, has_links |-> has_links])]
    ELSE
    LET nid == [id |-> parent_id, title |-> S.title]
        noted == [popup EXCEPT
                    !.db_notes = MapPut(S.db_notes, parent_id,
                                    [title |-> S.title, has_links |-> has_links]),
                    !.db_next_id = IF updated THEN S.db_next_id ELSE S.db_next_id + 1,
                    !.note_identifiers = IF updated THEN replace(S.note_identifiers, nid)
                                         ELSE update(S.note_identifiers, nid),
                    !.note_id = parent_id,
                    !.note_written = TRUE]
        sync == sync_db_links(S.db_links, S.links, parent_id, f)
    IN
    IF ~has_links
    THEN [noted EXCEPT !.user_msg = "Note saved!", !.result = "ok"]
    ELSE [noted EXCEPT
            !.db_links = sync.rows,
            !.links = LinksAfterSync(S.links, sync.ok),
            !.user_msg = IF sync.ok THEN "Note saved!" ELSE "Error saving note links!",
            !.result = IF sync.ok THEN "ok" ELSE "err",
            !.synced = TRUE,
            !.sync = sync]

\* the fields of App save_note works on, before the call
SaveArgs ==
    [title |-> title, note_id |-> note_id, links |-> links,
     note_identifiers |-> note_identifiers,
     current_screen |-> current_screen, prev_screen |-> prev_screen,
     user_msg |-> user_msg,
     db_notes |-> db_notes, db_links |-> db_links, db_next_id |-> db_next_id,
     result |-> "none", note_written |-> FALSE, synced |-> FALSE, sync |-> NoSync]

(***************************************************************************)
(* The application state machine (app.rs, events.rs).                      *)
(***************************************************************************)
vars_app == <<app_vars, editor_link_vars, ta_vars, db_vars, faults, gestures, error>>

Running == app_state = "Running"

\* run() has not returned an error
NoError == [kind |-> "none", named |-> {}]

\* the error a handler leaves behind: `named` holds the legs the message of
\* sync_db_links names
ErrorAfter(result, named) ==
    IF result \in {"err", "panic"} THEN [kind |-> result, named |-> named] ELSE error

\* a handler that returned Err ends run() (app.rs 248-258); a panic ends the process
StateAfter(result) ==
    IF result = "err" THEN "Failed"
    ELSE IF result = "panic" THEN "Panicked"
    ELSE app_state

\* the number of faults is bounded
FaultAllowed(f) == IsFault(f) => faults < MaxFaults

FaultsAfter(f) == IF IsFault(f) THEN faults + 1 ELSE faults

\* App::switch_to_main, the widget it leaves active
WidgetAfterSwitchToMain(w) ==
    IF w \in {None, "NoteList", "NoteTitleInput", "Searchbar"} THEN "Editor" ELSE w

\* TextArea::new(body, ta_links, max_col) in Editor::new: the anchor table of a
\* link map
TextAreaLinks(m) == [k \in DOMAIN m |-> to_textarea_link(m[k])]

\* the id the fresh text buffer hands out next
NextLinkIdOf(m) ==
    IF DOMAIN m = {} THEN 0
    ELSE 1 + CHOOSE k \in DOMAIN m : \A j \in DOMAIN m : j <= k

RECURSIVE NoteIdentifiersOf(_, _)
\* DbMac::load_note_identifiers: SELECT id, title FROM notes, in id order
NoteIdentifiersOf(N, ids) ==
    IF ids = {} THEN <<>>
    ELSE LET n == CHOOSE x \in ids : \A y \in ids : x <= y
         IN <<[id |-> n, title |-> N[n].title]>> \o NoteIdentifiersOf(N, ids \ {n})

\* App::new and Editor::new: the fields of a session that starts on notes table N
Session(N) ==
    [app_state |-> "Running",
     current_screen |-> "Welcome",
     prev_screen |-> "Welcome",
     active_widget |-> None,
     btns |-> <<"Active", IF DOMAIN N = {} THEN "Unavailable" ELSE "Inactive">>,
     btn_idx |-> 0,
     input_action |-> "Note",
     pending_link |-> <<>>,
     note_identifiers |-> NoteIdentifiersOf(N, DOMAIN N),
     selected |-> 0,
     user_msg |-> "Welcome",
     title |-> Untitled,
     note_id |-> NoNote,
     links |-> EmptyMap,
     ta_links |-> TextAreaLinks(EmptyMap),
     ta_deleted_link_ids |-> <<>>,
     ta_next_link_id |-> NextLinkIdOf(EmptyMap)]

InitApp ==
    /\ db_notes = EmptyMap
    /\ db_links = <<>>
    /\ db_next_id = 1
    /\ LET s == Session(EmptyMap) IN
        /\ app_state = s.app_state
        /\ current_screen = s.current_screen
        /\ prev_screen = s.prev_screen
        /\ active_widget = s.active_widget
        /\ btns = s.btns
        /\ btn_idx = s.btn_idx
        /\ input_action = s.input_action
        /\ pending_link = s.pending_link
        /\ note_identifiers = s.note_identifiers
        /\ selected = s.selected
        /\ user_msg = s.user_msg
        /\ title = s.title
        /\ note_id = s.note_id
        /\ links = s.links
        /\ ta_links = s.ta_links
        /\ ta_deleted_link_ids = s.ta_deleted_link_ids
        /\ ta_next_link_id = s.ta_next_link_id
    /\ faults = 0
    /\ gestures = 0
    /\ error = NoError

(***************************************************************************)
(* Welcome screen (events.rs 417-439).                                     *)
(***************************************************************************)
\* Events::switch_btns
switch_btns(b, idx) ==
    LET b1 == IF b[idx + 1] # "Unavailable" THEN [b EXCEPT ![idx + 1] = "Inactive"] ELSE b
        nxt == (idx + 1) % Len(b)
    IN [btn_idx |-> nxt,
        btns |-> IF b1[nxt + 1] # "Unavailable" THEN [b1 EXCEPT ![nxt + 1] = "Active"]
                 ELSE b1]

\* Tab
WelcomeTab ==
    /\ Running /\ current_screen = "Welcome"
    /\ btns' = switch_btns(btns, btn_idx).btns
    /\ btn_idx' = switch_btns(btns, btn_idx).btn_idx
    /\ UNCHANGED error
    /\ UNCHANGED <<app_state, current_screen, prev_screen, active_widget, input_action,
                   pending_link, note_identifiers, selected, user_msg,
                   editor_link_vars, ta_vars, db_vars, faults, gestures>>
    /\ UNCHANGED vars_editor

\* Enter on an active button: Events::btn_action
WelcomeEnter ==
    /\ Running /\ current_screen = "Welcome"
    /\ btns[btn_idx + 1] = "Active"
    /\ IF btn_idx = 0
       THEN \* RenderNewNoteScreen: App::switch_to_new_note(InputAction::Note)
            /\ current_screen' = "NewNote"
            /\ input_action' = "Note"
            /\ active_widget' = "NoteTitleInput"
       ELSE \* RenderLoadNoteScreen: App::switch_to_load_note
            /\ current_screen' = "LoadNote"
            /\ active_widget' = "NoteList"
            /\ UNCHANGED input_action
    /\ UNCHANGED error
    /\ UNCHANGED <<app_state, prev_screen, btns, btn_idx, pending_link, note_identifiers,
                   selected, user_msg, editor_link_vars, ta_vars, db_vars, faults, gestures>>
    /\ UNCHANGED vars_editor

(***************************************************************************)
(* Editor::refresh(title, body, links, note_id, max_col): the editor is    *)
(* rebuilt on another note, as Editor::new builds it.                      *)
(***************************************************************************)
refresh(t, m, id) ==
    /\ title' = t
    /\ note_id' = id
    /\ links' = m
    /\ ta_links' = TextAreaLinks(m)
    /\ ta_deleted_link_ids' = <<>>
    /\ ta_next_link_id' = NextLinkIdOf(m)

(***************************************************************************)
(* NewNote screen (events.rs 647-679).                                     *)
(***************************************************************************)
\* Esc
NewNoteEsc ==
    /\ Running /\ current_screen = "NewNote"
    /\ current_screen' = prev_screen
    /\ active_widget' = "Editor"
    /\ UNCHANGED error
    /\ UNCHANGED <<app_state, prev_screen, btns, btn_idx, input_action, pending_link,
                   note_identifiers, selected, user_msg,
                   editor_link_vars, ta_vars, db_vars, faults, gestures>>
    /\ UNCHANGED vars_editor

\* a title is taken in the note list
TitleListed(t) == \E i \in DOMAIN note_identifiers : note_identifiers[i].title = t

\* DbMac::save_note: the INSERT succeeds
InsertNoteOk(notes, t, f) == ~f.insert /\ TitleFree(notes, t, NoNote)

\* Enter with InputAction::Note: Events::input_new_note(app, false), on the
\* title t the user typed
NewNoteEnterNote(t, f) ==
    /\ Running /\ current_screen = "NewNote" /\ input_action = "Note"
    /\ t \in Titles /\ f \in InsertFaults
    /\ FaultAllowed(f)
    /\ faults' = FaultsAfter(f)
    /\ IF TitleListed(t)
           THEN \* the input turns to its error state
                /\ f = NoFault
                /\ UNCHANGED error
                /\ UNCHANGED <<app_vars, editor_link_vars, ta_vars, db_vars>>
           ELSE IF ~InsertNoteOk(db_notes, t, f)
           THEN /\ app_state' = StateAfter("err")
                /\ error' = ErrorAfter("err", {})
                /\ UNCHANGED <<current_screen, prev_screen, active_widget, btns, btn_idx,
                               input_action, pending_link, note_identifiers, selected,
                               user_msg, editor_link_vars, ta_vars, db_vars>>
           ELSE /\ db_next_id < MaxNotes + 1
                /\ db_notes' = MapPut(db_notes, db_next_id, [title |-> t, has_links |-> FALSE])
                /\ db_next_id' = db_next_id + 1
                /\ refresh(t, EmptyMap, db_next_id)
                /\ note_identifiers' = update(note_identifiers, [id |-> db_next_id, title |-> t])
                /\ current_screen' = "Main"
                /\ active_widget' = WidgetAfterSwitchToMain(active_widget)
                /\ UNCHANGED error
                /\ UNCHANGED <<app_state, prev_screen, btns, btn_idx, input_action,
                               pending_link, selected, user_msg, db_links>>
    /\ UNCHANGED gestures
    /\ UNCHANGED vars_editor

\* Enter with InputAction::NoteTitle: Events::input_new_note_title
NewNoteEnterTitle(t) ==
    /\ Running /\ current_screen = "NewNote" /\ input_action = "NoteTitle"
    /\ t \in Titles
    /\ IF TitleListed(t)
       THEN \* the input turns to its error state
            UNCHANGED <<app_vars, editor_link_vars>>
       ELSE /\ title' = t
            /\ current_screen' = "Main"
            /\ active_widget' = WidgetAfterSwitchToMain(active_widget)
            /\ UNCHANGED <<app_state, prev_screen, btns, btn_idx, input_action,
                           pending_link, note_identifiers, selected, user_msg,
                           note_id, links>>
    /\ UNCHANGED <<ta_vars, db_vars, faults, gestures, error>>
    /\ UNCHANGED vars_editor

(***************************************************************************)
(* The text buffer (editor.body, crate tuipaz_textarea) as events.rs sees  *)
(* it: what one key does to the anchor table.  An anchor that is deleted   *)
(* stays in the table with deleted = TRUE and its id is pushed on          *)
(* deleted_link_ids; undo and redo may bring a deleted anchor back or      *)
(* delete it again (check_link_edits copies the flag after u and r).       *)
(***************************************************************************)
KeyClasses == {"delete_key", "undo_redo", "other"}

LiveAnchors == {a \in DOMAIN ta_links : ~ta_links[a].deleted}

\* the effects of one key on the anchor table: none, one anchor moved, one
\* anchor deleted, one anchor's deletion undone or redone
KeyEffects(kc) ==
    {[kind |-> "none", anchor |-> 0, geom |-> CHOOSE g \in Geoms : TRUE]}
    \cup {[kind |-> "move", anchor |-> a, geom |-> g] : a \in LiveAnchors, g \in Geoms}
    \cup (IF kc = "undo_redo"
          THEN {[kind |-> "flip", anchor |-> a, geom |-> CHOOSE g \in Geoms : TRUE] :
                    a \in DOMAIN ta_links}
          ELSE {[kind |-> "delete", anchor |-> a, geom |-> CHOOSE g \in Geoms : TRUE] :
                    a \in IF Len(ta_deleted_link_ids) < MaxLinks THEN LiveAnchors ELSE {}})

\* body.links after the effect
AnchorsAfter(e) ==
    IF e.kind = "move"
    THEN [ta_links EXCEPT ![e.anchor].row = e.geom.row,
                          ![e.anchor].start_col = e.geom.start_col,
                          ![e.anchor].end_col = e.geom.end_col]
    ELSE IF e.kind = "delete"
    THEN [ta_links EXCEPT ![e.anchor].deleted = TRUE]
    ELSE IF e.kind = "flip"
    THEN [ta_links EXCEPT ![e.anchor].deleted = ~ta_links[e.anchor].deleted]
    ELSE ta_links

\* body.deleted_link_ids after the effect
DeletedIdsAfter(e) ==
    IF e.kind = "delete" THEN Append(ta_deleted_link_ids, e.anchor)
    ELSE ta_deleted_link_ids

(***************************************************************************)
(* Reconciliation (events.rs 1294-1338).  Each returns the link map, or    *)
(* Panic where an `expect` fails.                                          *)
(***************************************************************************)
Fine(m) == [panic |-> FALSE, m |-> m]
Panics(m) == [panic |-> TRUE, m |-> m]

\* Events::check_link_deletion, for the ids popped from body.deleted_link_ids
check_link_deletion(m, popped) ==
    IF DOMAIN m = {} THEN Fine(m)
    ELSE IF ~(Range(popped) \subseteq DOMAIN m) THEN Panics(m)
    ELSE Fine([k \in DOMAIN m |->
                IF k \in Range(popped) THEN [m[k] EXCEPT !.deleted = TRUE] ELSE m[k]])

\* Events::check_link_edits
check_link_edits(m, anchors) ==
    IF ~(DOMAIN m \subseteq DOMAIN anchors) THEN Panics(m)
    ELSE Fine([k \in DOMAIN m |-> [m[k] EXCEPT !.deleted = anchors[k].deleted]])

\* Events::check_link_moved
check_link_moved(m, anchors) ==
    IF ~(DOMAIN m \subseteq DOMAIN anchors) THEN Panics(m)
    ELSE Fine([k \in DOMAIN m |->
                IF moved(m[k], anchors[k])
                THEN [m[k] EXCEPT !.row = anchors[k].row,
                                  !.start_col = anchors[k].start_col,
                                  !.end_col = anchors[k].end_col,
                                  !.updated = TRUE]
                ELSE m[k]])

\* the three checks of the key handler, in its order (events.rs 620-635)
Reconcile(m, kc, anchors, popped) ==
    LET r1 == IF kc = "delete_key" /\ Len(popped) > 0
              THEN check_link_deletion(m, popped) ELSE Fine(m)
        r2 == IF r1.panic THEN r1
              ELSE IF kc = "undo_redo" THEN check_link_edits(r1.m, anchors) ELSE r1
    IN IF r2.panic THEN r2
       ELSE IF DOMAIN r2.m # {} THEN check_link_moved(r2.m, anchors) ELSE r2

(***************************************************************************)
(* Main screen (events.rs 440-646).                                        *)
(***************************************************************************)
\* any other key with the editor active: Editor::handle_input, then the checks
MainKey(kc, e) ==
    /\ Running /\ current_screen = "Main" /\ active_widget = "Editor"
    /\ e \in KeyEffects(kc)
    /\ LET anchors == AnchorsAfter(e)
           ids == DeletedIdsAfter(e)
           m == Reconcile(links, kc, anchors, ids)
       IN /\ ta_links' = anchors
          /\ ta_deleted_link_ids' = IF kc = "delete_key" THEN <<>> ELSE ids
          /\ links' = m.m
          /\ app_state' = StateAfter(IF m.panic THEN "panic" ELSE "ok")
          /\ error' = ErrorAfter(IF m.panic THEN "panic" ELSE "ok", {})
    /\ UNCHANGED <<current_screen, prev_screen, active_widget, btns, btn_idx, input_action,
                   pending_link, note_identifiers, selected, user_msg, title, note_id,
                   ta_next_link_id, db_vars, faults, gestures>>
    /\ UNCHANGED vars_editor

\* Alt-s: Events::save_note on the open note (events.rs 449-460)
MainSave(f) ==
    /\ Running /\ current_screen = "Main"
    /\ LET has_links == HasLinks(ta_links)
           r == save_note(SaveArgs, has_links, f)
       IN /\ f \in IF has_links THEN SaveFaults(links) ELSE NoteFaults
          /\ FaultAllowed(f)
          /\ r.note_written /\ note_id = NoNote => db_next_id <= MaxNotes
          /\ faults' = FaultsAfter(f)
          /\ note_id' = r.note_id
          /\ links' = r.links
          /\ note_identifiers' = r.note_identifiers
          /\ current_screen' = r.current_screen
          /\ prev_screen' = r.prev_screen
          /\ user_msg' = r.user_msg
          /\ db_notes' = r.db_notes
          /\ db_links' = r.db_links
          /\ db_next_id' = r.db_next_id
          /\ app_state' = StateAfter(r.result)
          /\ error' = ErrorAfter(r.result, r.sync.named)
    /\ UNCHANGED <<active_widget, btns, btn_idx, input_action, pending_link, selected,
                   title, ta_vars, gestures>>
    /\ UNCHANGED vars_editor

\* Alt-l
MainOpenLoad ==
    /\ Running /\ current_screen = "Main"
    /\ prev_screen' = current_screen
    /\ current_screen' = "LoadNote"
    /\ active_widget' = "NoteList"
    /\ UNCHANGED error
    /\ UNCHANGED <<app_state, btns, btn_idx, input_action, pending_link, note_identifiers,
                   selected, user_msg, editor_link_vars, ta_vars, db_vars, faults, gestures>>
    /\ UNCHANGED vars_editor

\* Alt-n (a new note) and Alt-t (a new title for the open note)
MainOpenInput(action) ==
    /\ Running /\ current_screen = "Main"
    /\ action \in {"Note", "NoteTitle"}
    /\ input_action' = action
    /\ prev_screen' = current_screen
    /\ current_screen' = "NewNote"
    /\ active_widget' = "NoteTitleInput"
    /\ UNCHANGED <<app_state, btns, btn_idx, pending_link, note_identifiers,
                   selected, user_msg, editor_link_vars, ta_vars, db_vars, faults,
                   gestures, error>>
    /\ UNCHANGED vars_editor

\* the anchor the text buffer draws when a link gesture completes
NewAnchor(id, g) ==
    [id |-> id, row |-> g.row, start_col |-> g.start_col, end_col |-> g.end_col,
     edited |-> FALSE, deleted |-> FALSE]

\* what ']' can do to the buffer: complete a link gesture at g (body.new_link
\* is set), or be one more character of the text, or nothing in Normal mode
LinkKeyEffects ==
    {[kind |-> "link", anchor |-> ta_next_link_id, geom |-> g] : g \in Geoms}
    \cup {e \in KeyEffects("other") : e.kind \in {"none", "move"}}

\* ']' (events.rs 539-566): Editor::handle_input, then the switch to the
\* NewLinkedNote screen when the buffer reports a new link; the checks of
\* MainKey do not run
MainInsertLink(e) ==
    /\ Running /\ current_screen = "Main"
    /\ e \in LinkKeyEffects
    /\ IF e.kind = "link"
       THEN /\ gestures < MaxLinks
            /\ gestures' = gestures + 1
            /\ ta_links' = MapPut(ta_links, e.anchor, NewAnchor(e.anchor, e.geom))
            /\ ta_next_link_id' = ta_next_link_id + 1
            /\ pending_link' = <<NewAnchor(e.anchor, e.geom)>>
            /\ prev_screen' = current_screen
            /\ current_screen' = "NewLinkedNote"
            /\ input_action' = "LinkedNote"
            /\ active_widget' = "NoteTitleInput"
       ELSE /\ ta_links' = AnchorsAfter(e)
            /\ UNCHANGED <<ta_next_link_id, pending_link, prev_screen, current_screen,
                           input_action, active_widget, gestures>>
    /\ UNCHANGED <<app_state, btns, btn_idx, note_identifiers, selected, user_msg,
                   editor_link_vars, ta_deleted_link_ids, db_vars, faults,
                   error>>
    /\ UNCHANGED vars_editor

(***************************************************************************)
(* Events::load_note (events.rs 1074-1157).                                *)
(***************************************************************************)
\* the link map load_note builds for note id (events.rs 1087-1100)
LoadedLinks(notes, rows, id) ==
    IF notes[id].has_links THEN RowsToLinks(DbLoadNoteLinks(rows, id)) ELSE EmptyMap

\* the SELECT that fails: DbMac::load_note ("note") or DbMac::load_note_links ("links")
LoadFaults == {[NoFault EXCEPT !.load = s] : s \in {"note", "links"}}

load_note(id, f) ==
    /\ f \in SaveFaults(links) \cup LoadFaults
    /\ FaultAllowed(f)
    /\ faults' = FaultsAfter(f)
    /\ f.load = "links" => id \in DOMAIN db_notes /\ db_notes[id].has_links
    /\ IF f.load = "note" \/ id \notin DOMAIN db_notes
       THEN \* DbMac::load_note returned Err (events.rs 1146-1155)
            /\ user_msg' = "Error saving note links!"
            /\ prev_screen' = current_screen
            /\ current_screen' = "Popup"
            /\ app_state' = StateAfter("err")
            /\ error' = ErrorAfter("err", {})
            /\ UNCHANGED <<active_widget, note_identifiers, editor_link_vars, ta_vars, db_vars>>
       ELSE IF f.load = "links"
       THEN \* DbMac::load_note_links(..).await? (events.rs 1088)
            /\ app_state' = StateAfter("err")
            /\ error' = ErrorAfter("err", {})
            /\ UNCHANGED <<user_msg, prev_screen, current_screen, active_widget,
                           note_identifiers, editor_link_vars, ta_vars, db_vars>>
       ELSE LET note == db_notes[id]
                loaded == LoadedLinks(db_notes, db_links, id)
                has_links == HasLinks(links)
                \* Save current note before loading new one
                r == IF title # Untitled THEN save_note(SaveArgs, has_links, f)
                     ELSE [SaveArgs EXCEPT !.result = "ok"]
            IN /\ title = Untitled => f = NoFault
               /\ ~has_links => f \in NoteFaults
               /\ r.note_written /\ note_id = NoNote => db_next_id <= MaxNotes
               /\ db_notes' = r.db_notes
               /\ db_links' = r.db_links
               /\ db_next_id' = r.db_next_id
               /\ note_identifiers' = r.note_identifiers
               /\ app_state' = StateAfter(r.result)
               /\ error' = ErrorAfter(r.result, r.sync.named)
               /\ IF r.result = "ok"
                  THEN /\ refresh(note.title, loaded, id)
                       /\ user_msg' = r.user_msg
                       /\ prev_screen' = r.prev_screen
                       /\ current_screen' = "Main"
                       /\ active_widget' = WidgetAfterSwitchToMain(active_widget)
                  ELSE IF r.result = "err"
                  THEN \* events.rs 1134-1143, on top of the popup of save_note
                       /\ user_msg' = "Error saving current note!"
                       /\ prev_screen' = r.current_screen
                       /\ current_screen' = "Popup"
                       /\ note_id' = r.note_id
                       /\ links' = r.links
                       /\ UNCHANGED <<title, ta_vars, active_widget>>
                  ELSE /\ user_msg' = r.user_msg
                       /\ prev_screen' = r.prev_screen
                       /\ current_screen' = r.current_screen
                       /\ note_id' = r.note_id
                       /\ links' = r.links
                       /\ UNCHANGED <<title, ta_vars, active_widget>>

\* what Enter can do with the editor active: follow the link of the anchor
\* the cursor is in, or go to the buffer when the cursor is in no link
EnterKeyEffects ==
    {[kind |-> "follow", anchor |-> a, geom |-> CHOOSE g \in Geoms : TRUE] :
        a \in LiveAnchors}
    \cup {e \in KeyEffects("other") : e.kind \in {"none", "move"}}

\* Enter on the main screen with the editor active (events.rs 574-594)
MainEnter(e, f) ==
    /\ Running /\ current_screen = "Main" /\ active_widget = "Editor"
    /\ e \in EnterKeyEffects
    /\ IF e.kind # "follow"
       THEN \* the key goes to the buffer; no check runs
            /\ f = NoFault
            /\ ta_links' = AnchorsAfter(e)
            /\ UNCHANGED <<app_vars, editor_link_vars, ta_deleted_link_ids,
                           ta_next_link_id, db_vars, faults, error>>
       ELSE IF e.anchor \in DOMAIN links
       THEN /\ load_note(links[e.anchor].linked_id, f)
            /\ UNCHANGED <<btns, btn_idx, input_action, pending_link, selected>>
       ELSE \* `.expect("Link should be set up")`
            /\ f = NoFault
            /\ app_state' = StateAfter("panic")
            /\ error' = ErrorAfter("panic", {})
            /\ UNCHANGED <<current_screen, prev_screen, active_widget, btns, btn_idx,
                           input_action, pending_link, note_identifiers, selected,
                           user_msg, editor_link_vars, ta_vars, db_vars, faults>>
    /\ UNCHANGED gestures
    /\ UNCHANGED vars_editor

(***************************************************************************)
(* LoadNote screen (events.rs 742-776) and the note list (note_list.rs).   *)
(***************************************************************************)
\* NoteList::next and NoteList::prev
next(sel, nids) == IF Len(nids) = 0 THEN sel ELSE (sel + 1) % Len(nids)

prev(sel, nids) == IF Len(nids) = 0 THEN sel ELSE (sel + Len(nids) - 1) % Len(nids)

\* Down, j, Up, k on the load screen; Down, Up on the list of the link screen
ListMove ==
    /\ Running
    /\ \/ current_screen = "LoadNote"
       \/ current_screen = "NewLinkedNote" /\ active_widget = "NoteList"
    /\ \/ selected' = next(selected, note_identifiers)
       \/ selected' = prev(selected, note_identifiers)
    /\ UNCHANGED error
    /\ UNCHANGED <<app_state, current_screen, prev_screen, active_widget, btns, btn_idx,
                   input_action, pending_link, note_identifiers, user_msg,
                   editor_link_vars, ta_vars, db_vars, faults, gestures>>
    /\ UNCHANGED vars_editor

\* Esc: App::switch_to_main
LoadNoteEsc ==
    /\ Running /\ current_screen = "LoadNote"
    /\ current_screen' = "Main"
    /\ active_widget' = WidgetAfterSwitchToMain(active_widget)
    /\ UNCHANGED error
    /\ UNCHANGED <<app_state, prev_screen, btns, btn_idx, input_action, pending_link,
                   note_identifiers, selected, user_msg,
                   editor_link_vars, ta_vars, db_vars, faults, gestures>>
    /\ UNCHANGED vars_editor

\* Enter: note_identifiers[selected] is loaded; the index panics out of range
LoadNoteEnter(f) ==
    /\ Running /\ current_screen = "LoadNote"
    /\ IF selected < Len(note_identifiers)
       THEN load_note(note_identifiers[selected + 1].id, f)
       ELSE /\ f = NoFault
            /\ app_state' = StateAfter("panic")
            /\ error' = ErrorAfter("panic", {})
            /\ UNCHANGED <<current_screen, prev_screen, active_widget, note_identifiers,
                           user_msg, editor_link_vars, ta_vars, db_vars, faults>>
    /\ UNCHANGED <<btns, btn_idx, input_action, pending_link, selected, gestures>>
    /\ UNCHANGED vars_editor

(***************************************************************************)
(* NewLinkedNote screen (events.rs 680-741).                               *)
(***************************************************************************)
\* TextArea::delete_link(id) of the cancelled gesture: the anchor leaves the
\* table, or stays in it marked deleted with its id queued
delete_link(id) ==
    IF id \notin DOMAIN ta_links THEN {[links |-> ta_links, ids |-> ta_deleted_link_ids]}
    ELSE {[links |-> MapRemove(ta_links, id), ids |-> ta_deleted_link_ids],
          [links |-> [ta_links EXCEPT ![id].deleted = TRUE],
           ids |-> Append(ta_deleted_link_ids, id)]}

\* Esc
NewLinkedNoteEsc ==
    /\ Running /\ current_screen = "NewLinkedNote"
    /\ current_screen' = prev_screen
    /\ active_widget' = "Editor"
    /\ \E d \in delete_link(ta_next_link_id - 1) :
        /\ ta_links' = d.links
        /\ ta_deleted_link_ids' = d.ids
    /\ UNCHANGED error
    /\ UNCHANGED <<app_state, prev_screen, btns, btn_idx, input_action, pending_link,
                   note_identifiers, selected, user_msg, editor_link_vars,
                   ta_next_link_id, db_vars, faults, gestures>>
    /\ UNCHANGED vars_editor

\* Tab: the title input and the note list take turns
NewLinkedNoteTab ==
    /\ Running /\ current_screen = "NewLinkedNote"
    /\ active_widget \in {"NoteList", "NoteTitleInput"}
    /\ active_widget' = IF active_widget = "NoteList" THEN "NoteTitleInput" ELSE "NoteList"
    /\ UNCHANGED error
    /\ UNCHANGED <<app_state, current_screen, prev_screen, btns, btn_idx, input_action,
                   pending_link, note_identifiers, selected, user_msg,
                   editor_link_vars, ta_vars, db_vars, faults, gestures>>
    /\ UNCHANGED vars_editor

\* Events::link_note: the link map after the call, or a panic
link_note(m, linked_id) ==
    IF pending_link = <<>> \/ ~TitleListed(title) THEN Panics(m)
    ELSE LET parent_nid == note_identifiers[
                 CHOOSE i \in DOMAIN note_identifiers :
                    /\ note_identifiers[i].title = title
                    /\ \A j \in DOMAIN note_identifiers :
                        note_identifiers[j].title = title => i <= j]
         IN Fine(MapPut(m, pending_link[1].id,
                    [id        |-> parent_nid.id,
                     text_id   |-> pending_link[1].id,
                     linked_id |-> linked_id,
                     row       |-> pending_link[1].row,
                     start_col |-> pending_link[1].start_col,
                     end_col   |-> pending_link[1].end_col,
                     saved     |-> FALSE,
                     updated   |-> FALSE,
                     deleted   |-> FALSE]))

\* Enter on the note list: the selected note becomes the target
NewLinkedNoteEnterList ==
    /\ Running /\ current_screen = "NewLinkedNote" /\ active_widget = "NoteList"
    /\ LET r == IF selected < Len(note_identifiers)
                THEN link_note(links, note_identifiers[selected + 1].id)
                ELSE Panics(links)
       IN /\ links' = r.m
          /\ app_state' = StateAfter(IF r.panic THEN "panic" ELSE "ok")
          /\ current_screen' = IF r.panic THEN current_screen ELSE "Main"
          /\ active_widget' = IF r.panic THEN active_widget
                              ELSE WidgetAfterSwitchToMain(active_widget)
          /\ error' = ErrorAfter(IF r.panic THEN "panic" ELSE "ok", {})
    /\ UNCHANGED <<prev_screen, btns, btn_idx, input_action, pending_link,
                   note_identifiers, selected, user_msg, title, note_id,
                   ta_vars, db_vars, faults, gestures>>
    /\ UNCHANGED vars_editor

\* Enter on the title input: Events::input_new_note(app, true) on the title t
NewLinkedNoteEnterInput(t, f) ==
    /\ Running /\ current_screen = "NewLinkedNote" /\ active_widget = "NoteTitleInput"
    /\ t \in Titles
    /\ FaultAllowed(f)
    /\ faults' = FaultsAfter(f)
    /\ IF TitleListed(t)
       THEN \* the input turns to its error state
            /\ f = NoFault
            /\ UNCHANGED <<app_vars, editor_link_vars, ta_vars, db_vars, error>>
       ELSE IF ~InsertNoteOk(db_notes, t, f)
       THEN \* DbMac::save_note of the new note returned Err
            /\ f \in InsertFaults
            /\ app_state' = StateAfter("err")
            /\ error' = ErrorAfter("err", {})
            /\ UNCHANGED <<current_screen, prev_screen, active_widget, btns, btn_idx,
                           input_action, pending_link, note_identifiers, selected,
                           user_msg, editor_link_vars, ta_vars, db_vars>>
       ELSE LET id == db_next_id
                new_nid == [id |-> id, title |-> t]
                notes1 == MapPut(db_notes, id, [title |-> t, has_links |-> FALSE])
                linked == link_note(links, id)
                \* Save parent note to preserve link in textarea
                S == [SaveArgs EXCEPT !.links = linked.m,
                                      !.current_screen = "Main",
                                      !.db_notes = notes1,
                                      !.db_next_id = id + 1]
                r == save_note(S, TRUE, f)
            IN /\ db_next_id <= MaxNotes
               /\ IF linked.panic
                  THEN /\ f = NoFault
                       /\ db_notes' = notes1
                       /\ db_next_id' = id + 1
                       /\ app_state' = StateAfter("panic")
                       /\ error' = ErrorAfter("panic", {})
                       /\ UNCHANGED <<current_screen, prev_screen, active_widget,
                                      note_identifiers, user_msg, editor_link_vars,
                                      ta_vars, db_links>>
                  ELSE /\ f \in SaveFaults(linked.m)
                       /\ r.note_written /\ note_id = NoNote => id + 1 <= MaxNotes
                       /\ db_notes' = r.db_notes
                       /\ db_links' = r.db_links
                       /\ db_next_id' = r.db_next_id
                       /\ user_msg' = r.user_msg
                       /\ prev_screen' = r.prev_screen
                       /\ active_widget' = WidgetAfterSwitchToMain(active_widget)
                       /\ app_state' = StateAfter(r.result)
                       /\ error' = ErrorAfter(r.result, r.sync.named)
                       /\ IF r.result = "ok"
                          THEN /\ refresh(t, EmptyMap, id)
                               /\ note_identifiers' = update(r.note_identifiers, new_nid)
                               /\ current_screen' = "Main"
                          ELSE /\ note_identifiers' = r.note_identifiers
                               /\ current_screen' = r.current_screen
                               /\ note_id' = r.note_id
                               /\ links' = r.links
                               /\ UNCHANGED <<title, ta_vars>>
    /\ UNCHANGED <<btns, btn_idx, input_action, pending_link, selected, gestures>>
    /\ UNCHANGED vars_editor

(***************************************************************************)
(* Popup screen (events.rs 777-783).                                       *)
(***************************************************************************)
\* the screen a message names as the next one
NextScreenOf(msg) == IF msg = "Error: couldn't delete" THEN "Main" ELSE None

\* Esc
PopupEsc ==
    /\ Running /\ current_screen = "Popup"
    /\ current_screen' = IF NextScreenOf(user_msg) # None THEN NextScreenOf(user_msg)
                         ELSE prev_screen
    /\ UNCHANGED error
    /\ UNCHANGED <<app_state, prev_screen, active_widget, btns, btn_idx, input_action,
                   pending_link, note_identifiers, selected, user_msg,
                   editor_link_vars, ta_vars, db_vars, faults, gestures>>
    /\ UNCHANGED vars_editor

(***************************************************************************)
(* Deleting the open note (events.rs 485-497, 784-816).                    *)
(***************************************************************************)
\* Alt-d
MainOpenDelete ==
    /\ Running /\ current_screen = "Main"
    /\ prev_screen' = current_screen
    /\ current_screen' = "DeleteNoteConfirmation"
    /\ user_msg' = "Are you sure"
    /\ UNCHANGED error
    /\ UNCHANGED <<app_state, active_widget, btns, btn_idx, input_action, pending_link,
                   note_identifiers, selected, editor_link_vars, ta_vars, db_vars,
                   faults, gestures>>
    /\ UNCHANGED vars_editor

\* NoteList::remove
remove(nids, id) == SelectSeq(nids, LAMBDA n : n.id # id)

\* y: DbMac::delete_note and NoteList::remove
DeleteNoteYes ==
    /\ Running /\ current_screen = "DeleteNoteConfirmation"
    /\ IF note_id = NoNote
       THEN /\ current_screen' = "Popup"
            /\ user_msg' = "Error: couldn't delete"
            /\ UNCHANGED error
            /\ UNCHANGED <<app_state, note_identifiers, db_vars>>
       ELSE /\ db_links' = DbDeleteNoteLinks(db_links, note_id)
            /\ db_notes' = [n \in DOMAIN db_notes \ {note_id} |-> db_notes[n]]
            /\ IF \E i \in DOMAIN note_identifiers : note_identifiers[i].id = note_id
               THEN /\ note_identifiers' = remove(note_identifiers, note_id)
                    /\ current_screen' = "Welcome"
                    /\ app_state' = StateAfter("ok")
                    /\ UNCHANGED error
               ELSE /\ app_state' = StateAfter("panic")
                    /\ error' = ErrorAfter("panic", {})
                    /\ UNCHANGED <<note_identifiers, current_screen>>
            /\ UNCHANGED <<user_msg, db_next_id>>
    /\ UNCHANGED <<prev_screen, active_widget, btns, btn_idx, input_action, pending_link,
                   selected, editor_link_vars, ta_vars, faults, gestures>>
    /\ UNCHANGED vars_editor

\* n and Esc: back to the screen before
DeleteNoteNo ==
    /\ Running /\ current_screen = "DeleteNoteConfirmation"
    /\ current_screen' = prev_screen
    /\ \/ active_widget' = "Editor"
       \/ UNCHANGED active_widget
    /\ UNCHANGED error
    /\ UNCHANGED <<app_state, prev_screen, btns, btn_idx, input_action, pending_link,
                   note_identifiers, selected, user_msg,
                   editor_link_vars, ta_vars, db_vars, faults, gestures>>
    /\ UNCHANGED vars_editor

(***************************************************************************)
(* The text buffer (editor.body, crate tuipaz_textarea): the operations    *)
(* the editor calls.  An editor is a record ed of the fields of Editor and *)
(* of its body; rows and columns count from 0.                             *)
(***************************************************************************)
Min(a, b) == IF a < b THEN a ELSE b
Max(a, b) == IF a < b THEN b ELSE a

Row(ed) == ed.cursor[1]
Col(ed) == ed.cursor[2]
LastRow(ed) == Len(ed.lines) - 1
Line(ed, r) == ed.lines[r + 1]
LineLen(ed, r) == Len(ed.lines[r + 1])

\* the cursor put on (r, c)
At(ed, r, c) == [ed EXCEPT !.cursor = <<r, c>>]

\* an edit: the text and the cursor after it; the register and the history
\* take the edit when it changed the text
Edit(ed, ls, r, c) ==
    [ed EXCEPT !.lines = ls, !.cursor = <<r, c>>,
               !.fresh = ed.fresh /\ ls = ed.lines]

CharKind(c) ==
    IF c = " " THEN "Space"
    ELSE IF c \in {"/", "]", "^", "$"} THEN "Punct"
    ELSE "Other"

\* the least element of a set of numbers, -1 when it is empty
Least(S) == IF S = {} THEN -1 ELSE CHOOSE x \in S : \A y \in S : x <= y

find_word_start_forward(line, start_col) ==
    Least({c \in (start_col + 1)..(Len(line) - 1) :
            /\ CharKind(line[c + 1]) # "Space"
            /\ CharKind(line[c]) # CharKind(line[c + 1])})

find_word_end_forward(line, start_col) ==
    Least({c \in (start_col + 1)..(Len(line) - 1) :
            /\ CharKind(line[c]) # "Space"
            /\ CharKind(line[c]) # CharKind(line[c + 1])})

find_word_start_backward(line, start_col) ==
    LET idx == Min(start_col, Len(line))
        i == Least({n \in 1..(idx - 1) :
                    /\ CharKind(line[idx - n + 1]) # "Space"
                    /\ CharKind(line[idx - n]) # CharKind(line[idx - n + 1])})
    IN IF idx = 0 THEN -1
       ELSE IF i # -1 THEN start_col - i
       ELSE IF CharKind(line[1]) # "Space" THEN 0
       ELSE -1

\* TextArea::move_cursor(CursorMove)
move_cursor(ed, m) ==
    LET r == Row(ed)
        c == Col(ed)
    IN CASE m.to = "Back" ->
                IF c > 0 THEN At(ed, r, c - 1)
                ELSE IF r > 0 THEN At(ed, r - 1, LineLen(ed, r - 1))
                ELSE ed
         [] m.to = "Forward" ->
                IF c < LineLen(ed, r) THEN At(ed, r, c + 1)
                ELSE IF r < LastRow(ed) THEN At(ed, r + 1, 0)
                ELSE ed
         [] m.to = "Up" ->
                IF r > 0 THEN At(ed, r - 1, Min(c, LineLen(ed, r - 1))) ELSE ed
         [] m.to = "Down" ->
                IF r < LastRow(ed) THEN At(ed, r + 1, Min(c, LineLen(ed, r + 1))) ELSE ed
         [] m.to = "Head" -> At(ed, r, 0)
         [] m.to = "End" -> At(ed, r, LineLen(ed, r))
         [] m.to = "Top" -> At(ed, 0, Min(c, LineLen(ed, 0)))
         [] m.to = "Bottom" -> At(ed, LastRow(ed), Min(c, LineLen(ed, LastRow(ed))))
         [] m.to = "Jump" ->
                LET jr == Min(m.row, LastRow(ed))
                IN At(ed, jr, Min(m.col, LineLen(ed, jr)))
         [] m.to = "WordForward" ->
                LET w == find_word_start_forward(Line(ed, r), c)
                IN IF w # -1 THEN At(ed, r, w)
                   ELSE IF r < LastRow(ed) THEN At(ed, r + 1, 0)
                   ELSE At(ed, r, LineLen(ed, r))
         [] m.to = "WordBack" ->
                LET w == find_word_start_backward(Line(ed, r), c)
                IN IF w # -1 THEN At(ed, r, w)
                   ELSE IF r > 0 THEN At(ed, r - 1, LineLen(ed, r - 1))
                   ELSE At(ed, r, 0)

Move(to) == [to |-> to, row |-> 0, col |-> 0]
Jump(r, c) == [to |-> "Jump", row |-> r, col |-> c]

\* the lines with line r replaced by the lines of ls
Splice(lines_, r, ls) ==
    SubSeq(lines_, 1, r) \o ls \o SubSeq(lines_, r + 2, Len(lines_))

\* line without the columns from..(to - 1)
Cut(line, from, to) == SubSeq(line, 1, from) \o SubSeq(line, to + 1, Len(line))

\* line r joined with the line before it
JoinWithPrev(ed, r) ==
    Edit(ed,
         SubSeq(ed.lines, 1, r - 1) \o <<Line(ed, r - 1) \o Line(ed, r)>>
            \o SubSeq(ed.lines, r + 2, Len(ed.lines)),
         r - 1, LineLen(ed, r - 1))

\* TextArea::delete_char (the character before the cursor)
delete_char(ed) ==
    LET r == Row(ed)
        c == Col(ed)
    IN IF c > 0 THEN Edit(ed, Splice(ed.lines, r, <<Cut(Line(ed, r), c - 1, c)>>), r, c - 1)
       ELSE IF r > 0 THEN JoinWithPrev(ed, r)
       ELSE ed

\* TextArea::delete_newline (the line break before the cursor line)
delete_newline(ed) == IF Row(ed) > 0 THEN JoinWithPrev(ed, Row(ed)) ELSE ed

\* TextArea::delete_next_char
delete_next_char(ed) ==
    LET r == Row(ed)
        c == Col(ed)
    IN IF c < LineLen(ed, r)
       THEN Edit(ed, Splice(ed.lines, r, <<Cut(Line(ed, r), c, c + 1)>>), r, c)
       ELSE IF r < LastRow(ed)
       THEN [JoinWithPrev(ed, r + 1) EXCEPT !.cursor = <<r, c>>]
       ELSE ed

\* TextArea::delete_line_by_end
delete_line_by_end(ed) ==
    LET r == Row(ed)
        c == Col(ed)
    IN IF c < LineLen(ed, r)
       THEN Edit(ed, Splice(ed.lines, r, <<SubSeq(Line(ed, r), 1, c)>>), r, c)
       ELSE delete_next_char(ed)

\* TextArea::insert_newline
insert_newline(ed) ==
    LET r == Row(ed)
        c == Col(ed)
        l == Line(ed, r)
    IN Edit(ed, Splice(ed.lines, r, <<SubSeq(l, 1, c), SubSeq(l, c + 1, Len(l))>>), r + 1, 0)

\* TextArea::insert_char
insert_char(ed, ch) ==
    LET r == Row(ed)
        c == Col(ed)
        l == Line(ed, r)
    IN Edit(ed, Splice(ed.lines, r, <<SubSeq(l, 1, c) \o <<ch>> \o SubSeq(l, c + 1, Len(l))>>),
            r, c + 1)

\* TextArea::delete_next_word
delete_next_word(ed) ==
    LET r == Row(ed)
        c == Col(ed)
        w == find_word_end_forward(Line(ed, r), c)
    IN IF w # -1 THEN Edit(ed, Splice(ed.lines, r, <<Cut(Line(ed, r), c, w)>>), r, c)
       ELSE IF c < LineLen(ed, r)
       THEN Edit(ed, Splice(ed.lines, r, <<SubSeq(Line(ed, r), 1, c)>>), r, c)
       ELSE delete_next_char(ed)

\* TextArea::delete_word
delete_word(ed) ==
    LET r == Row(ed)
        c == Col(ed)
        w == find_word_start_backward(Line(ed, r), c)
    IN IF w # -1 THEN Edit(ed, Splice(ed.lines, r, <<Cut(Line(ed, r), w, c)>>), r, w)
       ELSE IF c > 0 THEN Edit(ed, Splice(ed.lines, r, <<Cut(Line(ed, r), 0, c)>>), r, 0)
       ELSE delete_newline(ed)

\* TextArea::delete_line(up): the cursor line goes; the only line of the
\* buffer is emptied instead; the cursor stays on the row (the line that
\* followed) or, with up, goes to the line above
delete_line(ed, up) ==
    LET r == Row(ed)
        ls == Splice(ed.lines, r, <<>>)
        nr == IF up THEN Max(r - 1, 0) ELSE Min(r, Len(ls) - 1)
    IN IF Len(ed.lines) = 1 THEN Edit(ed, <<<<>>>>, 0, 0)
       ELSE Edit(ed, ls, nr, Min(Col(ed), Len(ls[nr + 1])))

\* TextArea::paste, undo, redo on an empty register and an empty history
paste(ed) == ed
undo(ed) == ed
redo(ed) == ed

\* TextArea::start_selection, cancel_selection
start_selection(ed) == [ed EXCEPT !.selection = <<ed.cursor>>]
cancel_selection(ed) == [ed EXCEPT !.selection = <<>>]

PosLess(p, q) == p[1] < q[1] \/ (p[1] = q[1] /\ p[2] < q[2])

\* TextArea::copy: the selected text goes to the register
copy(ed) ==
    IF ed.selection = <<>> THEN ed
    ELSE [ed EXCEPT !.selection = <<>>,
                    !.fresh = ed.fresh /\ ed.selection[1] = ed.cursor]

\* TextArea::cut: the selected text goes to the register and leaves the text
cut(ed) ==
    IF ed.selection = <<>> \/ ed.selection[1] = ed.cursor THEN cancel_selection(ed)
    ELSE LET a == IF PosLess(ed.selection[1], ed.cursor) THEN ed.selection[1] ELSE ed.cursor
             b == IF PosLess(ed.selection[1], ed.cursor) THEN ed.cursor ELSE ed.selection[1]
             l == SubSeq(Line(ed, a[1]), 1, a[2])
                    \o SubSeq(Line(ed, b[1]), b[2] + 1, LineLen(ed, b[1]))
             ls == SubSeq(ed.lines, 1, a[1]) \o <<l>>
                    \o SubSeq(ed.lines, b[1] + 2, Len(ed.lines))
         IN [Edit(ed, ls, a[1], a[2]) EXCEPT !.selection = <<>>]

\* the positions of the text where pat starts
Matches(ed, pat) ==
    IF pat = <<>> THEN {}
    ELSE {p \in UNION {{<<r, c>> : c \in 0..LineLen(ed, r)} : r \in 0..LastRow(ed)} :
            /\ p[2] + Len(pat) <= LineLen(ed, p[1])
            /\ SubSeq(Line(ed, p[1]), p[2] + 1, p[2] + Len(pat)) = pat}

RECURSIVE InOrder(_)
\* a set of positions as the sequence in the order of the text
InOrder(S) ==
    IF S = {} THEN <<>>
    ELSE LET p == CHOOSE x \in S : \A y \in S : x = y \/ PosLess(x, y)
         IN <<p>> \o InOrder(S \ {p})

\* TextArea::set_search_pattern, clear_search
set_search_pattern(ed, pat) == [ed EXCEPT !.search = pat]
clear_search(ed) == [ed EXCEPT !.search = <<>>]

\* TextArea::search_forward(false): to the next match after the cursor, or to
\* the first match of the text
search_forward(ed) ==
    LET ms == InOrder(Matches(ed, ed.search))
        after == SelectSeq(ms, LAMBDA p : PosLess(ed.cursor, p))
    IN IF ms = <<>> THEN ed
       ELSE IF after # <<>> THEN At(ed, after[1][1], after[1][2])
       ELSE At(ed, ms[1][1], ms[1][2])

\* TextArea::search_back(false)
search_back(ed) ==
    LET ms == InOrder(Matches(ed, ed.search))
        before == SelectSeq(ms, LAMBDA p : PosLess(p, ed.cursor))
    IN IF ms = <<>> THEN ed
       ELSE IF before # <<>> THEN At(ed, before[Len(before)][1], before[Len(before)][2])
       ELSE At(ed, ms[Len(ms)][1], ms[Len(ms)][2])

\* TextArea::set_hop_pattern, hop_to_idx, clear_hop
set_hop_pattern(ed, target) == [ed EXCEPT !.hop = InOrder(Matches(ed, target))]
hop_to_idx(ed, idx) ==
    IF idx < Len(ed.hop) THEN At(ed, ed.hop[idx + 1][1], ed.hop[idx + 1][2]) ELSE ed
clear_hop(ed) == [ed EXCEPT !.hop = <<>>]

\* TextArea::set_alignment
set_alignment(ed, a) == [ed EXCEPT !.alignment = a]

(***************************************************************************)
(* Editor (editor.rs): the command interpreter.  A key is the name of a    *)
(* special key or a character.                                             *)
(***************************************************************************)
SpecialKeys == {"Esc", "Up", "Down", "Left", "Right", "Enter", "Backspace", "Delete"}
IsChar(k) == k \notin SpecialKeys

DigitChars == <<"0", "1", "2", "3", "4", "5", "6", "7", "8", "9">>
IsDigit(k) == \E i \in 1..10 : DigitChars[i] = k
\* char::to_digit(10)
to_digit(k) == (CHOOSE i \in 1..10 : DigitChars[i] = k) - 1

DELETE_COMMANDS == {"d", "w", "b", "j", "k", "l", "h"}
YANK_COMMANDS == {"w", "b", "j", "k", "l", "h"}
GOTO_COMMAND == "g"

\* the builds of the program: arithmetic overflow panics in a debug build and
\* wraps in a release build
Builds == {"debug", "release"}

U16 == 65536

RECURSIVE Pow10(_)
Pow10(e) == IF e = 0 THEN 1 ELSE 10 * Pow10(e - 1)

\* the process has died in a panic
Panic(ed) == [ed EXCEPT !.panic = TRUE]

\* TextArea::input(input): one key given to the buffer
input(ed, k) ==
    LET e == [ed EXCEPT !.inputs = ed.inputs + 1]
    IN CASE k = "Esc" -> e
         [] k = "Enter" -> insert_newline(e)
         [] k = "Backspace" -> delete_char(e)
         [] k = "Delete" -> delete_next_char(e)
         [] k = "Left" -> move_cursor(e, Move("Back"))
         [] k = "Right" -> move_cursor(e, Move("Forward"))
         [] k = "Up" -> move_cursor(e, Move("Up"))
         [] k = "Down" -> move_cursor(e, Move("Down"))
         [] OTHER -> insert_char(e, k)

\* Editor::set_mode
set_mode(ed, mode_) ==
    [(CASE mode_ = "Insert" -> clear_search(cancel_selection(ed))
        [] mode_ = "Normal" -> cancel_selection(ed)
        [] mode_ = "Visual" -> clear_search(start_selection(ed)))
     EXCEPT !.mode = mode_]

\* Editor::set_prev_cursor_col
set_prev_cursor_col(ed) == [ed EXCEPT !.prev_cursor_col = Col(ed)]

jump_cursor_to_prev_colMutant(ed) == move_cursor(ed, Move("End"))
\* Editor::jump_cursor_to_prev_col
jump_cursor_to_prev_col(ed) ==
    IF ed.prev_cursor_col < LineLen(ed, Row(ed))
    THEN move_cursor(ed, Jump(Row(ed), ed.prev_cursor_col))
    ELSE move_cursor(ed, Move("End"))

RECURSIVE NumFold(_, _, _, _)
\* the fold of get_num_from_buf from digit idx on: the u32 accumulator.  A
\* count of at most nine digits stays below 2^32, so that no operation of
\* the fold overflows
NumFold(buf, num_buf_len, idx, acc) ==
    IF idx >= Len(buf) THEN acc
    ELSE LET n == buf[idx + 1]
         IN NumFold(buf, num_buf_len, idx + 1,
                    acc + Max(n, Pow10(num_buf_len - 1 - idx) * n))

\* Editor::get_num_from_buf: the u32 sum cast to u16
get_num_from_buf(ed, num_buf_len) ==
    [num |-> NumFold(ed.num_buf, num_buf_len, 0, 0) % U16, panic |-> FALSE]

\* the closures the editor repeats
Apply(ed, act) ==
    CASE act = "delete_next_char" -> delete_next_char(ed)
      [] act = "delete_char" -> delete_char(ed)
      [] act = "delete_line" -> delete_line(ed, FALSE)
      [] act = "delete_line_up" -> delete_line(ed, TRUE)
      [] act = "delete_next_word" -> delete_next_word(ed)
      [] act = "delete_word" -> delete_word(ed)
      [] act = "yank_line" ->
            move_cursor(delete_newline(delete_line_by_end(move_cursor(ed, Move("Head")))),
                        Move("Down"))
      [] act = "yank_line_once" ->
            delete_newline(delete_line_by_end(move_cursor(ed, Move("Head"))))
      [] act = "yank_back" -> delete_word(move_cursor(ed, Move("WordBack")))
      [] OTHER -> move_cursor(ed, Move(act))

RECURSIVE Times(_, _, _), Round(_, _, _, _)
\* `for _ in 0..n { action(self) }`; an action that changed nothing changes
\* nothing in the rounds that follow
Times(ed, n, act) == IF n = 0 THEN ed ELSE Round(ed, Apply(ed, act), n, act)
Round(ed, e, n, act) == IF e = ed THEN ed ELSE Times(e, n - 1, act)

\* `for _ in 0..repetitions { action(self) }; self.num_buf.clear()`
Repeat(ed, repetitions, act) ==
    IF repetitions.panic THEN Panic(ed)
    ELSE [Times(ed, repetitions.num, act) EXCEPT !.num_buf = <<>>,
                                                  !.reps = repetitions.num]

\* Editor::repeat_action
repeat_action(ed, num_buf_len, act) ==
    Repeat(ed, get_num_from_buf(ed, num_buf_len), act)

\* `match num_buf_len { 0 => action, _ => self.repeat_action(num_buf_len, action) }`
Counted(ed, act) ==
    IF Len(ed.num_buf) = 0 THEN Apply(ed, act)
    ELSE repeat_action(ed, Len(ed.num_buf), act)

\* the pending command is over
Reset(ed) == [ed EXCEPT !.cmd_state = "NoCommand"]
ClearCmd(ed) == [ed EXCEPT !.cmd_buf = <<>>]
ClearBoth(ed) == [ed EXCEPT !.cmd_buf = <<>>, !.num_buf = <<>>]

\* the arms of execute_delete: the deletion of each modifier
DeleteAction ==
    [modifier \in {"d", "j", "k", "h", "l", "w", "b"} |->
        CASE modifier \in {"d", "j"} -> "delete_line"
          [] modifier = "k" -> "delete_line_up"
          [] modifier = "h" -> "delete_char"
          [] modifier = "l" -> "delete_next_char"
          [] modifier = "w" -> "delete_next_word"
          [] modifier = "b" -> "delete_word"]

\* Editor::execute_delete
execute_delete(ed, modifier) ==
    Reset(IF modifier \in DOMAIN DeleteAction
          THEN ClearCmd(Counted(ed, DeleteAction[modifier]))
          ELSE ClearBoth(ed))

\* `for _ in 0..num { ... }; self.num_buf.clear()` of execute_yank
YankTimes(ed, act) == Repeat(ed, get_num_from_buf(ed, Len(ed.num_buf)), act)

\* the arms of execute_yank that act on the text: what each modifier repeats
\* with a count, and what it does once without one
YankAction == [modifier \in {"l", "w", "b"} |->
                CASE modifier = "l" -> "yank_line"
                  [] modifier = "w" -> "delete_word"
                  [] modifier = "b" -> "yank_back"]
YankOnce == [modifier \in {"l", "w", "b"} |->
                CASE modifier = "l" -> "yank_line_once"
                  [] modifier = "w" -> "delete_word"
                  [] modifier = "b" -> "yank_back"]

\* Editor::execute_yank
execute_yank(ed, modifier) ==
    Reset(IF modifier \in DOMAIN YankAction
          THEN ClearCmd(IF Len(ed.num_buf) # 0 THEN YankTimes(ed, YankAction[modifier])
                        ELSE Apply(ed, YankOnce[modifier]))
          ELSE ClearBoth(ed))

\* `CursorMove::Jump(num - 1, 0)` of execute_goto: `num - 1` is a subtraction
\* of u16, which panics at 0 in a debug build and wraps in a release build
GotoLineMutant(ed, num) ==
    IF num.panic \/ (num.num = 0 /\ ed.build = "debug") THEN Panic(ed)
    ELSE [move_cursor(ed, Jump((num.num - 1) % U16, 0)) EXCEPT !.reps = num.num]

GotoLine(ed, num) ==
    IF num.panic \/ (num.num = 0 /\ ed.build = "debug") THEN Panic(ed)
    ELSE [move_cursor(ed, Jump((num.num - 1) % U16, 0))
            EXCEPT !.num_buf = <<>>, !.reps = num.num]

\* Editor::execute_goto
execute_goto(ed, modifier) ==
    Reset(IF modifier = "g"
          THEN ClearCmd(
                IF Len(ed.num_buf) # 0
                THEN GotoLine(ed, get_num_from_buf(ed, Len(ed.num_buf)))
                ELSE move_cursor(move_cursor(ed, Move("Top")), Move("Head")))
          ELSE ClearBoth(ed))

\* Iterator::position: the index of the first element of s that is target
Position(s, target) == Least({i \in 0..(Len(s) - 1) : s[i + 1] = target})

\* the sequence in reverse
Rev(s) == [i \in 1..Len(s) |-> s[Len(s) + 1 - i]]

\* Editor::execute_find; a slice that starts after the end of the line, and
\* `cursor.1 - 1` at column 0, panic
execute_find(ed, target, forward) ==
    LET r == Row(ed)
        c == Col(ed)
        line == Line(ed, r)
    IN IF forward
       THEN IF c + 1 > Len(line) THEN Panic(ed)
            ELSE LET col == Position(SubSeq(line, c + 2, Len(line)), target)
                 IN Reset(ClearBoth(
                        IF col # -1 THEN move_cursor(ed, Jump(r, c + 1 + col)) ELSE ed))
       ELSE IF c = 0 THEN Panic(ed)
            ELSE LET col == Position(Rev(SubSeq(line, 1, c - 1)), target)
                 IN Reset(ClearBoth(
                        IF col # -1 THEN move_cursor(ed, Jump(r, c - 2 - col)) ELSE ed))

\* Editor::prime_hop
prime_hop(ed, target) == [set_hop_pattern(ed, target) EXCEPT !.cmd_state = "ExecuteHop"]

\* Editor::execute_hop
execute_hop(ed) ==
    Reset(ClearBoth(clear_hop(hop_to_idx(ed, get_num_from_buf(ed, Len(ed.num_buf)).num))))

\* Editor::process_command_key_inputs
process_command_key_inputs(ed, k) ==
    IF ~IsChar(k) THEN ed
    ELSE LET e == [ed EXCEPT !.cmd_buf = Append(ed.cmd_buf, k)]
         IN IF k \in DELETE_COMMANDS /\ e.cmd_state = "Delete" THEN execute_delete(e, k)
            ELSE IF k \in YANK_COMMANDS /\ e.cmd_state = "Yank" THEN execute_yank(e, k)
            ELSE IF k = GOTO_COMMAND /\ e.cmd_state = "GoTo" THEN execute_goto(e, k)
            ELSE IF e.cmd_state = "FindForward" THEN execute_find(e, k, TRUE)
            ELSE IF e.cmd_state = "FindBackward" THEN execute_find(e, k, FALSE)
            ELSE IF e.cmd_state = "PrimeHop"
            THEN IF Len(e.cmd_buf) = 2 THEN prime_hop(e, e.cmd_buf) ELSE e
            ELSE IF e.cmd_state = "ExecuteHop"
            THEN IF IsDigit(k) THEN [e EXCEPT !.num_buf = Append(e.num_buf, to_digit(k))]
                 ELSE IF k = "h" THEN execute_hop(e)
                 ELSE e
            ELSE Reset(e)

\* Editor::prime_command_state
prime_command_state(ed, k) ==
    IF ~IsChar(k) THEN Reset(ClearBoth(ed))
    ELSE IF IsDigit(k) THEN [ed EXCEPT !.num_buf = Append(ed.num_buf, to_digit(k))]
    ELSE IF ed.cmd_state # "NoCommand" THEN Reset(ClearCmd(ed))
    ELSE CASE k = "d" -> [ed EXCEPT !.cmd_buf = Append(ed.cmd_buf, k), !.cmd_state = "Delete"]
           [] k = "g" -> [ed EXCEPT !.cmd_buf = Append(ed.cmd_buf, k), !.cmd_state = "GoTo"]
           [] k = "y" -> [ed EXCEPT !.cmd_buf = Append(ed.cmd_buf, k), !.cmd_state = "Yank"]
           [] k = "f" ->
                [ed EXCEPT !.cmd_buf = Append(ed.cmd_buf, k), !.cmd_state = "FindForward"]
           [] k = "F" ->
                [ed EXCEPT !.cmd_buf = Append(ed.cmd_buf, k), !.cmd_state = "FindBackward"]
           [] k = "s" -> [ed EXCEPT !.cmd_state = "PrimeHop"]
           [] OTHER -> Reset(ClearCmd(ed))

\* the keys of the counted motions and the move of each
MotionOf ==
    [k \in {"h", "Left", "j", "Down", "k", "Up", "l", "Right", "w", "b"} |->
        CASE k \in {"h", "Left"} -> "Back"
          [] k \in {"j", "Down"} -> "Down"
          [] k \in {"k", "Up"} -> "Up"
          [] k \in {"l", "Right"} -> "Forward"
          [] k = "w" -> "WordForward"
          [] k = "b" -> "WordBack"]

\* after a motion the column is restored (vertical) or remembered (horizontal)
Column(ed, act) ==
    IF act \in {"Up", "Down"} THEN jump_cursor_to_prev_col(ed)
    ELSE set_prev_cursor_col(ed)

\* a motion arm of handle_input: the move, once or repeated, then the column
\* is remembered (horizontal) or restored (vertical)
Motion(ed, act) == Column(Counted(ed, act), act)

InsertModeKeyMutant(ed, k) ==
    IF k = "Esc" THEN set_mode(input(ed, k), "Normal") ELSE input(ed, k)
\* handle_input, EditorMode::Insert (editor.rs 188-209)
InsertModeKey(ed, k) ==
    CASE k = "Esc" -> set_mode(ed, "Normal")
      [] k \in {"Up", "Down"} -> jump_cursor_to_prev_col(input(ed, k))
      [] k \in {"Left", "Right"} -> set_prev_cursor_col(input(ed, k))
      [] OTHER -> input(ed, k)

NormalModeKeyMutant(ed, k) ==
    IF ed.cmd_state # "NoCommand" THEN process_command_key_inputs(ed, k)
    ELSE CASE k \in DOMAIN MotionOf -> Motion(ed, MotionOf[k])
           [] k = "^" -> set_prev_cursor_col(move_cursor(ed, Move("Head")))
           [] k = "$" -> set_prev_cursor_col(move_cursor(ed, Move("End")))
           [] k = "G" -> move_cursor(ed, Move("Head"))
           [] k = "D" -> delete_line_by_end(ed)
           [] k = "C" -> set_prev_cursor_col(set_mode(delete_line_by_end(ed), "Insert"))
           [] k = "p" -> set_prev_cursor_col(paste(ed))
           [] k = "u" -> set_prev_cursor_col(undo(ed))
           [] k = "r" -> set_prev_cursor_col(redo(ed))
           [] k = "x" -> set_prev_cursor_col(Counted(ed, "delete_next_char"))
           [] k = "O" ->
                set_mode(insert_newline(move_cursor(move_cursor(ed, Move("Up")),
                                                    Move("End"))), "Insert")
           [] k = "o" -> set_mode(insert_newline(move_cursor(ed, Move("End"))), "Insert")
           [] k = "n" -> set_prev_cursor_col(search_forward(ed))
           [] k = "N" -> set_prev_cursor_col(search_back(ed))
           [] k = "a" -> set_mode(ed, "Insert")
           [] k = "A" -> set_mode(move_cursor(ed, Move("End")), "Insert")
           [] k = "i" -> set_mode(ed, "Insert")
           [] k = "I" -> set_mode(move_cursor(ed, Move("Head")), "Insert")
           [] k = "v" -> set_mode(ed, "Visual")
           [] k = "V" ->
                move_cursor(set_mode(move_cursor(ed, Move("Head")), "Visual"), Move("End"))
           [] OTHER -> prime_command_state(ed, k)
\* handle_input, EditorMode::Normal (editor.rs 210-548)
NormalModeKey(ed, k) ==
    IF ed.cmd_state # "NoCommand" THEN process_command_key_inputs(ed, k)
    ELSE CASE k \in DOMAIN MotionOf -> Motion(ed, MotionOf[k])
           [] k = "^" -> set_prev_cursor_col(move_cursor(ed, Move("Head")))
           [] k = "$" -> set_prev_cursor_col(move_cursor(ed, Move("End")))
           [] k = "G" -> move_cursor(move_cursor(ed, Move("Bottom")), Move("Head"))
           [] k = "D" -> delete_line_by_end(ed)
           [] k = "C" -> set_prev_cursor_col(set_mode(delete_line_by_end(ed), "Insert"))
           [] k = "p" -> set_prev_cursor_col(paste(ed))
           [] k = "u" -> set_prev_cursor_col(undo(ed))
           [] k = "r" -> set_prev_cursor_col(redo(ed))
           [] k = "x" -> set_prev_cursor_col(Counted(ed, "delete_next_char"))
           [] k = "O" ->
                set_mode(insert_newline(move_cursor(move_cursor(ed, Move("Up")),
                                                    Move("End"))), "Insert")
           [] k = "o" -> set_mode(insert_newline(move_cursor(ed, Move("End"))), "Insert")
           [] k = "n" -> set_prev_cursor_col(search_forward(ed))
           [] k = "N" -> set_prev_cursor_col(search_back(ed))
           [] k = "a" -> set_mode(ed, "Insert")
           [] k = "A" -> set_mode(move_cursor(ed, Move("End")), "Insert")
           [] k = "i" -> set_mode(ed, "Insert")
           [] k = "I" -> set_mode(move_cursor(ed, Move("Head")), "Insert")
           [] k = "v" -> set_mode(ed, "Visual")
           [] k = "V" ->
                move_cursor(set_mode(move_cursor(ed, Move("Head")), "Visual"), Move("End"))
           [] OTHER -> prime_command_state(ed, k)

VisualModeKeyMutant(ed, k) ==
    IF k = "Esc" THEN set_mode(ed, "Normal")
    ELSE IF ed.cmd_state \in {"GoTo", "Delete", "Yank"} THEN process_command_key_inputs(ed, k)
    ELSE IF ed.cmd_state # "NoCommand" THEN ed
    ELSE CASE k \in DOMAIN MotionOf -> Motion(ed, MotionOf[k])
           [] k = "^" -> set_prev_cursor_col(move_cursor(ed, Move("Head")))
           [] k = "$" -> set_prev_cursor_col(move_cursor(ed, Move("End")))
           [] k = "G" ->
                set_prev_cursor_col(
                    move_cursor(move_cursor(ed, Move("Bottom")), Move("Head")))
           [] k = "y" -> set_mode(copy(ed), "Normal")
           [] k = "x" -> set_mode(cut(ed), "Normal")
           [] k = "1" -> set_alignment(ed, "Left")
           [] k = "2" -> set_alignment(ed, "Center")
           [] k = "3" -> set_alignment(ed, "Right")
           [] OTHER -> prime_command_state(ed, k)
\* handle_input, EditorMode::Visual (editor.rs 549-753)
VisualModeKey(ed, k) ==
    IF k = "Esc" THEN set_mode(ed, "Normal")
    ELSE IF ed.cmd_state \in {"GoTo", "Delete", "Yank"} THEN process_command_key_inputs(ed, k)
    ELSE IF ed.cmd_state # "NoCommand" THEN ed
    ELSE CASE k \in DOMAIN MotionOf -> Motion(ed, MotionOf[k])
           [] k = "^" -> set_prev_cursor_col(move_cursor(ed, Move("Head")))
           [] k = "$" -> set_prev_cursor_col(move_cursor(ed, Move("End")))
           [] k = "G" ->
                set_prev_cursor_col(
                    move_cursor(move_cursor(ed, Move("Bottom")), Move("Head")))
           [] k = "y" -> set_mode(copy(ed), "Normal")
           [] k = "x" -> set_mode(cut(ed), "Normal")
           [] k = "1" -> set_alignment(ed, "Left")
           [] k = "2" -> set_alignment(ed, "Center")
           [] k = "3" -> set_alignment(ed, "Right")
           [] OTHER -> ed

\* Editor::handle_input (editor.rs 185-755)
handle_input(ed, k) ==
    CASE ed.mode = "Insert" -> InsertModeKey(ed, k)
      [] ed.mode = "Normal" -> NormalModeKey(ed, k)
      [] ed.mode = "Visual" -> VisualModeKey(ed, k)

\* the editor as a record of the variables
Ed ==
    [mode |-> mode, cmd_state |-> cmd_state, num_buf |-> num_buf, cmd_buf |-> cmd_buf,
     prev_cursor_col |-> prev_cursor_col, lines |-> lines, cursor |-> cursor,
     selection |-> selection, search |-> search, hop |-> hop, alignment |-> alignment,
     fresh |-> fresh, build |-> build,
     panic |-> FALSE, inputs |-> 0, reps |-> -1]

\* the variables take the editor that a call returned; a call that panicked
\* leaves the editor as it was
Becomes(e) ==
    LET r == IF e.panic THEN Ed ELSE e
    IN /\ mode' = r.mode
       /\ cmd_state' = r.cmd_state
       /\ num_buf' = r.num_buf
       /\ cmd_buf' = r.cmd_buf
       /\ prev_cursor_col' = r.prev_cursor_col
       /\ lines' = r.lines
       /\ cursor' = r.cursor
       /\ selection' = r.selection
       /\ search' = r.search
       /\ hop' = r.hop
       /\ alignment' = r.alignment
       /\ fresh' = r.fresh
       /\ done' = [panic |-> e.panic, inputs |-> r.inputs, reps |-> r.reps]
       /\ app_state' = StateAfter(IF e.panic THEN "panic" ELSE "ok")
       /\ error' = ErrorAfter(IF e.panic THEN "panic" ELSE "ok", {})
       /\ UNCHANGED build

(***************************************************************************)
(* Editor::new (editor.rs 117-155): the command interpreter at rest on the *)
(* text of a note, and App::new: the bars of the main screen.              *)
(***************************************************************************)
NoKey == [panic |-> FALSE, inputs |-> 0, reps |-> -1]

EditorNew(text) ==
    /\ mode = "Normal"
    /\ cmd_state = "NoCommand"
    /\ num_buf = <<>>
    /\ cmd_buf = <<>>
    /\ prev_cursor_col = 0
    /\ lines = text
    /\ cursor = <<0, 0>>
    /\ selection = <<>>
    /\ search = <<>>
    /\ hop = <<>>
    /\ alignment = "Left"
    /\ fresh = TRUE
    /\ done = NoKey

BarsNew ==
    /\ searchbar_open = FALSE
    /\ searchbar_text = <<>>
    /\ sidebar_open = FALSE

(***************************************************************************)
(* The main screen on a note without links (events.rs 440-646): the keys   *)
(* that reach the editor and the bars.                                     *)
(***************************************************************************)
\* the text stays within MaxLines lines of MaxLineLen characters, the count
\* within MaxDigits digits, the pending command within MaxCmdBuf characters
Fits(e) ==
    /\ Len(e.lines) <= MaxLines
    /\ \A i \in DOMAIN e.lines : Len(e.lines[i]) <= MaxLineLen
    /\ Len(e.num_buf) <= MaxDigits
    /\ Len(e.cmd_buf) <= MaxCmdBuf

\* the text has no anchors
NoAnchors == DOMAIN links = {} /\ DOMAIN ta_links = {} /\ ta_deleted_link_ids = <<>>

app_rest == <<current_screen, prev_screen, btns, btn_idx, input_action, pending_link,
              note_identifiers, selected, user_msg, editor_link_vars, ta_vars, db_vars,
              faults, gestures>>

\* a key of the editor (events.rs 595-635): Editor::handle_input; the checks
\* of the links that follow find no link.  p, u and r are pressed while the
\* register and the history are empty
EditorKey(k) ==
    /\ Running /\ current_screen = "Main" /\ active_widget = "Editor"
    /\ NoAnchors
    /\ k \notin {"Enter", "/", "]"}
    /\ (k \in {"p", "u", "r"} /\ mode = "Normal" /\ cmd_state = "NoCommand") => fresh
    /\ LET e == handle_input(Ed, k)
       IN Fits(e) /\ Becomes(e)
    /\ UNCHANGED <<active_widget, app_rest, bar_vars>>

\* Enter with the editor active and the cursor in no link (events.rs 574-594):
\* the key goes to the buffer in every mode
EditorEnter ==
    /\ Running /\ current_screen = "Main" /\ active_widget = "Editor"
    /\ NoAnchors
    /\ LET e == input(Ed, "Enter")
       IN Fits(e) /\ Becomes(e)
    /\ UNCHANGED <<active_widget, app_rest, bar_vars>>

\* Events::toggle_searchbar
toggle_searchbar ==
    /\ searchbar_open' = ~searchbar_open
    /\ active_widget' = IF searchbar_open THEN "Editor" ELSE "Searchbar"

\* '/' (events.rs 503-512): the search bar in Normal mode, a key of the
\* editor in the other modes
MainSlash ==
    /\ Running /\ current_screen = "Main"
    /\ NoAnchors
    /\ IF mode = "Normal"
       THEN /\ toggle_searchbar
            /\ UNCHANGED <<interpreter_vars, text_vars, build, done, app_state, error>>
       ELSE /\ LET e == handle_input(Ed, "/")
               IN Fits(e) /\ Becomes(e)
            /\ UNCHANGED <<active_widget, searchbar_open>>
    /\ UNCHANGED <<app_rest, searchbar_text, sidebar_open>>

\* Alt-f: Events::toggle_sidebar
MainToggleSidebar ==
    /\ Running /\ current_screen = "Main"
    /\ sidebar_open' = ~sidebar_open
    /\ active_widget' = IF ~sidebar_open THEN "Sidebar"
                        ELSE IF searchbar_open THEN "Searchbar"
                        ELSE "Editor"
    /\ UNCHANGED <<app_state, error, app_rest, interpreter_vars, text_vars, build, done,
                   searchbar_open, searchbar_text>>

\* Alt-Tab (events.rs 567-573)
MainSwitchActiveWidget ==
    /\ Running /\ current_screen = "Main"
    /\ active_widget \in {"Editor", "Sidebar"}
    /\ active_widget' = IF active_widget = "Editor" THEN "Sidebar" ELSE "Editor"
    /\ UNCHANGED <<app_state, error, app_rest, vars_editor>>

\* a character with the search bar active (events.rs 636-643): it joins the
\* text of the bar, which becomes the search pattern of the buffer
SearchbarKey(c) ==
    /\ Running /\ current_screen = "Main" /\ active_widget = "Searchbar"
    /\ IsChar(c) /\ c \notin {"/", "]"}
    /\ Len(searchbar_text) < MaxPattern
    /\ searchbar_text' = Append(searchbar_text, c)
    /\ search' = set_search_pattern(Ed, Append(searchbar_text, c)).search
    /\ UNCHANGED <<app_state, error, active_widget, app_rest, interpreter_vars, lines,
                   cursor, selection, hop, alignment, fresh, searchbar_open, sidebar_open,
                   build, done>>

\* Enter with the search bar active (events.rs 600-603): Searchbar::clear_search
\* and toggle_searchbar; the pattern of the buffer stays
SearchbarEnter ==
    /\ Running /\ current_screen = "Main" /\ active_widget = "Searchbar"
    /\ searchbar_text' = <<>>
    /\ toggle_searchbar
    /\ UNCHANGED <<app_state, error, app_rest, interpreter_vars, text_vars, sidebar_open,
                   build, done>>

\* the notes table with one note that has no links
OneNote == 1 :> [title |-> <<1>>, has_links |-> FALSE]

\* a session that started on OneNote and loaded the note from the welcome
\* screen (Tab, Enter, Enter): the main screen with the editor on its text
InitEditor(text) ==
    /\ db_notes = OneNote
    /\ db_links = <<>>
    /\ db_next_id = 2
    /\ LET s == Session(OneNote) IN
        /\ app_state = s.app_state
        /\ current_screen = "Main"
        /\ prev_screen = s.prev_screen
        /\ active_widget = WidgetAfterSwitchToMain("NoteList")
        /\ btns = switch_btns(s.btns, s.btn_idx).btns
        /\ btn_idx = switch_btns(s.btns, s.btn_idx).btn_idx
        /\ input_action = s.input_action
        /\ pending_link = s.pending_link
        /\ note_identifiers = s.note_identifiers
        /\ selected = s.selected
        /\ user_msg = s.user_msg
        /\ title = OneNote[1].title
        /\ note_id = 1
        /\ links = LoadedLinks(OneNote, <<>>, 1)
        /\ ta_links = TextAreaLinks(EmptyMap)
        /\ ta_deleted_link_ids = <<>>
        /\ ta_next_link_id = NextLinkIdOf(EmptyMap)
    /\ faults = 0
    /\ gestures = 0
    /\ error = NoError
    /\ EditorNew(text)
    /\ BarsNew
    /\ build \in Builds

vars == <<vars_app, vars_editor>>

Init == InitApp /\ EditorNew(<<<<>>>>) /\ BarsNew /\ build = "release"

(***************************************************************************)
(* Properties of the link synchronization.                                 *)
(***************************************************************************)
\* the handler saved the note and the synchronization of its links returned Ok
SavedWithLinks(f) ==
    MainSave(f) /\ DOMAIN ta_links # {} /\ app_state' = "Running"

\* C1: when a leg of the link synchronization of a save fails, no link write
\* of that save is in the persisted rows: they are the rows before the save
C1_FailedLegLeavesRows ==
    [][\A f \in SaveFaults(links) :
            (MainSave(f) /\ f.legs # {}) => db_links' = db_links]_vars

\* C2: after a successful save of a note with links, the to-update, to-insert
\* and to-delete sets of the link map are empty, so that a second save with
\* no keystroke in between writes nothing
C2_SecondSaveWritesNothing ==
    [][SavedWithLinks(NoFault) => LegsWithWork(links') = {}]_vars

\* C3: after a successful synchronization no link that was in the to-delete
\* set at the start of the save is in the link map
C3_DeletedLinksLeaveMap ==
    [][SavedWithLinks(NoFault) => \A k \in ToDelete(links) : k \notin DOMAIN links']_vars

\* C4: when the synchronization of a save fails, the link map is the one the
\* save started on: links for Alt-s, links with the new link for the save of
\* the parent note on the NewLinkedNote screen
C4_FailedSyncKeepsLinks ==
    [][/\ \A f \in SaveFaults(links) :
            (MainSave(f) /\ user_msg' = "Error saving note links!") => links' = links
       /\ \A t \in Titles, f \in SaveFaults(link_note(links, db_next_id).m) :
            (NewLinkedNoteEnterInput(t, f) /\ user_msg' = "Error saving note links!")
                => links' = link_note(links, db_next_id).m]_vars

\* a leg of the synchronization failed while a link was waiting for its INSERT
C4_Witness ==
    /\ app_state = "Failed" /\ user_msg = "Error saving note links!"
    /\ error.named # {}
    /\ ToInsert(links) # {}

\* what load_note makes of the rows of note id for the link k of map m: a
\* link of the same id, geometry and target, saved and neither updated nor
\* deleted
RoundTrip(m, k, notes, rows, id) ==
    /\ k \in DOMAIN LoadedLinks(notes, rows, id)
    /\ LoadedLinks(notes, rows, id)[k] =
            [m[k] EXCEPT !.saved = TRUE, !.updated = FALSE, !.deleted = FALSE]

\* C5: a link that a successful save inserts comes back from the persisted
\* rows of its note with the same id, geometry and target and with the flags
\* saved = TRUE, updated = FALSE, deleted = FALSE; for Alt-s and for the save
\* of the parent note on the NewLinkedNote screen
C5_RoundTrip ==
    [][/\ SavedWithLinks(NoFault) =>
            \A k \in ToInsert(links) :
                RoundTrip(links, k, db_notes', db_links', note_id')
       /\ \A t \in Titles :
            (NewLinkedNoteEnterInput(t, NoFault) /\ note_id' # note_id) =>
                \A k \in ToInsert(link_note(links, db_next_id).m) :
                    RoundTrip(link_note(links, db_next_id).m, k,
                              db_notes', db_links', note_id)]_vars

\* a note with a link was saved and the link has a row
C5_Witness ==
    /\ app_state = "Running" /\ current_screen = "Popup" /\ user_msg = "Note saved!"
    /\ \E k \in DOMAIN links : ~links[k].deleted /\ links[k].saved
    /\ Len(db_links) > 0

\* the saved links whose text the buffer reports as deleted
DeletedText ==
    {a \in DOMAIN links \cap DOMAIN ta_links : ta_links[a].deleted /\ links[a].saved}

\* C6: a successful save after the text of saved links was deleted, with no
\* link to update or to insert, removes the rows (note_id, anchor id) of
\* those links and leaves every other row as it was
C6_DeleteRemovesExactlyTheRow ==
    [][(SavedWithLinks(NoFault) /\ ToUpdate(links) = {} /\ ToInsert(links) = {}) =>
        db_links' = SelectSeq(db_links,
                        LAMBDA r : ~(r.parent_note_id = note_id
                                        /\ r.textarea_id \in DeletedText))]_vars

(***************************************************************************)
(* Properties of the classification and of the reconciliation.             *)
(***************************************************************************)
\* C12: the sets to-update, to-insert and to-delete of the link map are
\* pairwise disjoint in every state
C12_ClassesDisjoint ==
    /\ ToUpdate(links) \cap ToInsert(links) = {}
    /\ ToUpdate(links) \cap ToDelete(links) = {}
    /\ ToInsert(links) \cap ToDelete(links) = {}

C12_Witness ==
    /\ ToUpdate(links) # {}
    /\ ToInsert(links) # {}

\* a key of the main screen went to the text buffer and changed its anchors
BufferKey ==
    /\ Running /\ current_screen = "Main" /\ active_widget = "Editor"
    /\ \/ \E kc \in KeyClasses : \E e \in KeyEffects(kc) : MainKey(kc, e)
       \/ \E e \in LinkKeyEffects : MainInsertLink(e)
       \/ \E e \in EnterKeyEffects : e.kind # "follow" /\ MainEnter(e, NoFault)
    /\ ta_links' # ta_links
    /\ app_state' = "Running"

Geometry(l) == <<l.row, l.start_col, l.end_col>>

\* C13: after a key that changed the buffer every link that is not deleted
\* has the geometry of its anchor, and every link whose geometry the key
\* changed has updated = TRUE
C13_KeysReconcileGeometry ==
    [][BufferKey =>
        \A k \in DOMAIN links' :
            /\ ~links'[k].deleted => ~moved(links'[k], ta_links'[k])
            /\ (k \in DOMAIN links /\ Geometry(links'[k]) # Geometry(links[k]))
                    => links'[k].updated]_vars

\* C14: after a key that changed the buffer every link whose anchor the
\* buffer reports as deleted has deleted = TRUE
C14_DeletedAnchorsMarkLinks ==
    [][BufferKey =>
        \A k \in DOMAIN links' : ta_links'[k].deleted => links'[k].deleted]_vars

(***************************************************************************)
(* The application level.  The environment of Spec is a user who creates   *)
(* notes, draws links (MaxLinks gestures in a run), edits the linked text, *)
(* saves, loads notes and follows links, on a storage that fails at most   *)
(* MaxFaults times, in a save the user asks for or in the INSERT of a new  *)
(* note.  A link is drawn at the first column; Enter is pressed inside a   *)
(* link.                                                                   *)
(***************************************************************************)
Next ==
    \/ WelcomeEnter
    \/ \E t \in Titles, f \in InsertFaults : NewNoteEnterNote(t, f)
    \/ \E kc \in {"delete_key", "other"} : \E e \in KeyEffects(kc) : MainKey(kc, e)
    \/ \E f \in SaveFaults(links) : MainSave(f)
    \/ MainOpenLoad
    \/ \E e \in {x \in LinkKeyEffects : x.kind = "link" /\ x.geom.start_col = 0} :
            MainInsertLink(e)
    \/ \E e \in {x \in EnterKeyEffects : x.kind = "follow"} : MainEnter(e, NoFault)
    \/ LoadNoteEnter(NoFault)
    \/ NewLinkedNoteTab
    \/ NewLinkedNoteEnterList
    \/ \E t \in Titles, f \in SaveFaults(link_note(links, db_next_id).m) \cup InsertFaults :
            NewLinkedNoteEnterInput(t, f)
    \/ PopupEsc

Spec == Init /\ [][Next]_vars

(***************************************************************************)
(* The keys of the main screen.  The environment of SpecKeys is a user who *)
(* creates notes, draws links and types on the main screen: every key that *)
(* goes to the text buffer (the keys of the editor, ']' and Enter), with   *)
(* every effect it can have on the anchors; the storage does not fail.     *)
(***************************************************************************)
NextKeys ==
    \/ WelcomeEnter
    \/ \E t \in Titles : NewNoteEnterNote(t, NoFault)
    \/ \E kc \in KeyClasses : \E e \in KeyEffects(kc) : MainKey(kc, e)
    \/ \E e \in LinkKeyEffects : MainInsertLink(e)
    \/ \E e \in EnterKeyEffects : MainEnter(e, NoFault)
    \/ NewLinkedNoteTab
    \/ NewLinkedNoteEnterList
    \/ \E t \in Titles : NewLinkedNoteEnterInput(t, NoFault)

SpecKeys == Init /\ [][NextKeys]_vars

(***************************************************************************)
(* The command interpreter of the editor.  The specifications below start  *)
(* on the main screen with the editor on the text of a note without links, *)
(* in a debug or a release build, and press keys of one family each.       *)
(***************************************************************************)
\* the text of the note: a line of two words, a shorter line, an empty line
Text == <<<<"a", " ", "a">>, <<"a">>, <<>>>>

\* counts and the commands that take one
CountKeys == {"3", "5", "6", "d", "j"}

InitCount == InitEditor(Text)

NextCount == \E k \in CountKeys : EditorKey(k)

SpecCount == InitCount /\ [][NextCount]_vars

\* line numbers and the command that goes to a line
GotoKeys == {"0", "2", "g", "j"}

NextGoto == \E k \in GotoKeys : EditorKey(k)

SpecGoto == InitCount /\ [][NextGoto]_vars

\* the keys that start a command, and keys that complete or do not complete it
PendingKeys == {"d", "y", "g", "f", "s", "z", "h", "2", "Esc"}

NextPending == \E k \in PendingKeys : EditorKey(k)

SpecPending == InitCount /\ [][NextPending]_vars

\* the motions, a count, and Visual mode
MoveKeys == {"h", "j", "k", "l", "Up", "Down", "w", "^", "$", "G", "2", "v", "Esc"}

NextMove == \E k \in MoveKeys : EditorKey(k)

SpecMove == InitCount /\ [][NextMove]_vars

\* a text of one line
OneLine == <<<<"a", " ", "a">>>>

\* the immediate actions of Normal mode, after a count or not; Esc leaves
\* the mode they enter
ImmediateKeys == {"p", "u", "r", "x", "a", "A", "i", "I", "o", "O", "v", "V"}

NextImmediate ==
    \/ \E k \in ImmediateKeys \cup {"2"} : mode = "Normal" /\ EditorKey(k)
    \/ EditorKey("Esc")

InitImmediate == InitEditor(OneLine)

SpecImmediate == InitImmediate /\ [][NextImmediate]_vars

\* typing: the keys pressed in Insert mode, and those pressed in Normal mode,
\* where the user types at most one digit before the switch to Insert mode
InsertKeys == {"a", "Esc", "Up", "Down", "Left", "Right", "Backspace", "Delete"}
BeforeInsertKeys == {"i", "2"}

NextInsert ==
    \/ \E k \in InsertKeys : mode = "Insert" /\ EditorKey(k)
    \/ \E k \in BeforeInsertKeys :
            mode = "Normal" /\ (IsDigit(k) => num_buf = <<>>) /\ EditorKey(k)
    \/ EditorEnter

InitInsert == InitEditor(<<<<"a">>>>)

SpecInsert == InitInsert /\ [][NextInsert]_vars

\* searching: the search bar and the sidebar, the mode switches, a motion,
\* n and the keys that leave Visual mode; in Insert mode the user presses
\* Esc or '/'
SearchKeys == {"i", "v", "Esc", "n", "l", "y", "x"}

NextSearch ==
    \/ \E k \in SearchKeys : (mode = "Insert" => k = "Esc") /\ EditorKey(k)
    \/ MainSlash
    \/ MainToggleSidebar
    \/ MainSwitchActiveWidget
    \/ SearchbarKey("a")
    \/ SearchbarEnter

SpecSearch == InitImmediate /\ [][NextSearch]_vars

\* finding a character of the line: the text, and the keys f and F, the
\* targets, motions and x
FindText == <<<<"z", " ", "z">>, <<"z">>>>
FindKeys == {"f", "F", "z", " ", "l", "h", "j", "k", "x", "$"}

NextFind == \E k \in FindKeys : EditorKey(k)

InitFind == InitEditor(FindText)

SpecFind == InitFind /\ [][NextFind]_vars

\* hopping to a match: a line with two matches of "zz", and the keys s, z,
\* the digit 1 and the terminating key h
HopText == <<<<"z", "z", "z">>>>
HopKeys == {"s", "z", "1", "h"}

NextHop == \E k \in HopKeys : EditorKey(k)

InitHop == InitEditor(HopText)

SpecHop == InitHop /\ [][NextHop]_vars

\* links of a note whose title the user edits: the user creates notes, gives
\* the open note a new title (Alt-t), draws links at the first column and
\* chooses their targets and saves; the storage does not fail
NextTitle ==
    \/ WelcomeEnter
    \/ \E t \in Titles : NewNoteEnterNote(t, NoFault)
    \/ MainOpenInput("NoteTitle")
    \/ \E t \in Titles : NewNoteEnterTitle(t)
    \/ \E e \in {x \in LinkKeyEffects : x.kind = "link" /\ x.geom.start_col = 0} :
            MainInsertLink(e)
    \/ NewLinkedNoteTab
    \/ NewLinkedNoteEnterList
    \/ \E t \in Titles : NewLinkedNoteEnterInput(t, NoFault)
    \/ MainSave(NoFault)
    \/ PopupEsc

SpecTitle == Init /\ [][NextTitle]_vars

\* completing a command: the keys that open the five commands with a
\* completion set, completions of each, and a digit
CompleteKeys == {"d", "y", "g", "f", "F", "l", "w", "2"}

NextComplete == \E k \in CompleteKeys : EditorKey(k)

SpecComplete == InitCount /\ [][NextComplete]_vars

\* a user who creates a note, draws links to it, types, deletes, undoes and
\* redoes on the main screen and saves with Alt-s; the storage does not fail
NextSave ==
    \/ WelcomeEnter
    \/ \E t \in Titles : NewNoteEnterNote(t, NoFault)
    \/ \E kc \in KeyClasses : \E e \in KeyEffects(kc) : MainKey(kc, e)
    \/ MainSave(NoFault)
    \/ \E e \in {x \in LinkKeyEffects : x.kind = "link" /\ x.geom.start_col = 0} :
            MainInsertLink(e)
    \/ NewLinkedNoteTab
    \/ NewLinkedNoteEnterList
    \/ PopupEsc

SpecSave == Init /\ [][NextSave]_vars

\* leaving a state: a command that is abandoned (y then 2), the hop, the
\* Visual and the Insert mode and Esc
TrapKeys == {"y", "2", "s", "z", "h", "v", "i", "Esc"}

NextTrap == \E k \in TrapKeys : EditorKey(k)

SpecTrap == InitCount /\ [][NextTrap]_vars

\* link gestures that are completed, cancelled or fail: the user creates a
\* note, draws links, chooses the target from the list or types the title of
\* a new note, or leaves the screen with Esc, and types on the main screen;
\* the INSERT of the new note may fail
NextGesture ==
    \/ WelcomeEnter
    \/ \E t \in Titles : NewNoteEnterNote(t, NoFault)
    \/ \E kc \in KeyClasses : \E e \in KeyEffects(kc) : MainKey(kc, e)
    \/ \E e \in {x \in LinkKeyEffects : x.kind = "link" /\ x.geom.start_col = 0} :
            MainInsertLink(e)
    \/ NewLinkedNoteEsc
    \/ NewLinkedNoteTab
    \/ NewLinkedNoteEnterList
    \/ \E t \in Titles, f \in InsertFaults : NewLinkedNoteEnterInput(t, f)

SpecGesture == Init /\ [][NextGesture]_vars

\* the note list: the user creates notes, opens the load screen, moves in
\* the list, loads a note, deletes the open note and starts again from the
\* welcome screen; the storage does not fail
NextList ==
    \/ WelcomeTab
    \/ WelcomeEnter
    \/ NewNoteEsc
    \/ \E t \in Titles : NewNoteEnterNote(t, NoFault)
    \/ MainOpenInput("Note")
    \/ MainOpenLoad
    \/ ListMove
    \/ LoadNoteEsc
    \/ LoadNoteEnter(NoFault)
    \/ MainOpenDelete
    \/ DeleteNoteYes
    \/ DeleteNoteNo

SpecList == Init /\ [][NextList]_vars

\* a key other than Esc in Insert mode
InsertKey ==
    /\ mode = "Insert"
    /\ \/ \E k \in InsertKeys \ {"Esc"} : EditorKey(k)
       \/ EditorEnter

\* Esc in Insert mode
InsertEsc == mode = "Insert" /\ EditorKey("Esc")

\* C18: in Insert mode every key other than Esc is passed to the text buffer
\* exactly once and leaves the mode, the command state, num_buf and cmd_buf
\* unchanged; Esc passes nothing to the buffer and sets the mode to Normal.
C18_InsertForwards ==
    [][/\ InsertKey => (done'.inputs = 1 /\ UNCHANGED <<mode, cmd_state, num_buf, cmd_buf>>)
       /\ InsertEsc => (done'.inputs = 0 /\ mode' = "Normal")]_vars

\* a key was passed to the buffer in Insert mode, with a count buffered
C18_Witness ==
    /\ mode = "Insert"
    /\ done.inputs = 1
    /\ num_buf = <<2>>
    /\ lines # <<<<"a">>>>

\* a key changed the mode of the editor
ModeTransition == NextSearch /\ mode' # mode

\* C19: every mode transition leaves the buffer with no active search
\* highlighting, and every transition into Insert or Normal mode leaves it
\* with no active selection.
C19_TransitionClears ==
    [][ModeTransition =>
        /\ search' = <<>>
        /\ mode' \in {"Insert", "Normal"} => selection' = <<>>]_vars

\* the columns of the cursor line that hold the character t
Holding(t) == {i \in 0..(Len(lines[cursor[1] + 1]) - 1) : lines[cursor[1] + 1][i + 1] = t}

\* the greatest element of a set of numbers
Greatest(S) == CHOOSE x \in S : \A y \in S : y <= x

\* C20: `f t` moves the cursor to the smallest column greater than the cursor
\* column that holds t on the cursor line, and `F t` to the largest column
\* smaller than the cursor column that holds t, the column just before the
\* cursor included; the cursor stays where no such column exists, and the
\* row never changes.
C20_FindTarget ==
    [][\A t \in {k \in FindKeys : IsChar(k)} :
        (cmd_state \in {"FindForward", "FindBackward"} /\ EditorKey(t)) =>
            LET after == {i \in Holding(t) : i > cursor[2]}
                before == {i \in Holding(t) : i < cursor[2]}
                found == IF cmd_state = "FindForward" THEN after ELSE before
                col == IF cmd_state = "FindForward" THEN Least(after) ELSE Greatest(before)
            IN /\ done'.panic = FALSE
               /\ cursor'[1] = cursor[1]
               /\ cursor'[2] = IF found = {} THEN cursor[2] ELSE col]_vars

RECURSIVE Base10(_)
\* the base-10 integer of a sequence of digits, the first the most significant
Base10(buf) ==
    IF buf = <<>> THEN 0
    ELSE 10 * Base10(SubSeq(buf, 1, Len(buf) - 1)) + buf[Len(buf)]

\* the key repeated a deletion with the count of num_buf
Repeated ==
    /\ NextCount
    /\ cmd_state = "Delete"
    /\ num_buf # <<>>
    /\ done'.reps # -1

\* C7: when an action is repeated, the repeat count used is the base-10
\* integer of the digits of num_buf in the order of entry, the first digit
\* the most significant, for every sequence of digits.
C7_CountIsBase10 == [][Repeated => done'.reps = Base10(num_buf)]_vars

\* d or j completes a pending Delete in Normal mode
DeleteLines ==
    /\ mode = "Normal"
    /\ cmd_state = "Delete"
    /\ \E k \in {"d", "j"} : EditorKey(k)

\* the text without the n lines from row r on; a text keeps one empty line
WithoutLines(text, r, n) ==
    LET rest == SubSeq(text, 1, r) \o SubSeq(text, r + n + 1, Len(text))
    IN IF rest = <<>> THEN <<<<>>>> ELSE rest

\* C8: in Normal mode dd and dj delete exactly the cursor line without a
\* count and, with the count N, exactly min(N, lines from the cursor line to
\* the last line) lines from the cursor line on; every other line stays and
\* the text keeps at least one line.
C8_DeletesCountedLines ==
    [][DeleteLines =>
        LET N == IF num_buf = <<>> THEN 1 ELSE Base10(num_buf)
        IN /\ done'.panic = FALSE
           /\ lines' = WithoutLines(lines, cursor[1], Min(N, Len(lines) - cursor[1]))
           /\ Len(lines') >= 1]_vars

\* g completes a pending GoTo
GotoKey ==
    /\ cmd_state = "GoTo"
    /\ EditorKey("g")

\* C9: in GoTo state the key g moves the cursor to line 0, column 0 when
\* num_buf is empty and to line N-1, column 0 for the buffered count N (a
\* line of the text); afterwards num_buf and cmd_buf are empty and the
\* command state is NoCommand.
C9_GotoLine ==
    [][GotoKey =>
        LET N == Base10(num_buf)
        IN /\ done'.panic = FALSE
           /\ num_buf = <<>> => cursor' = <<0, 0>>
           /\ (num_buf # <<>> /\ N >= 1 /\ N <= Len(lines)) => cursor' = <<N - 1, 0>>
           /\ num_buf' = <<>>
           /\ cmd_buf' = <<>>
           /\ cmd_state' = "NoCommand"]_vars

\* the keys that complete, or that feed, the command of a state
Completion(state) ==
    CASE state = "Delete" -> DELETE_COMMANDS
      [] state = "Yank" -> YANK_COMMANDS
      [] state = "GoTo" -> {GOTO_COMMAND}
      [] state \in {"FindForward", "FindBackward", "PrimeHop"} -> {k \in PendingKeys : IsChar(k)}
      [] state = "ExecuteHop" -> {k \in PendingKeys : IsDigit(k)} \cup {"h"}
      [] OTHER -> {}

\* a command is pending and the key is outside the completion set of its state
Aborts ==
    /\ cmd_state # "NoCommand"
    /\ \E k \in PendingKeys \ Completion(cmd_state) : EditorKey(k)

\* C10: with a command pending, a key outside the completion set of the
\* state leaves the text and the cursor unchanged, empties num_buf and
\* cmd_buf and sets the command state to NoCommand.
C10_OtherKeyAborts ==
    [][Aborts =>
        /\ done'.panic = FALSE
        /\ lines' = lines
        /\ cursor' = cursor
        /\ num_buf' = <<>>
        /\ cmd_buf' = <<>>
        /\ cmd_state' = "NoCommand"]_vars

\* a vertical move: j, k, Up or Down with no command pending
VerticalMove ==
    /\ mode \in {"Normal", "Visual"}
    /\ cmd_state = "NoCommand"
    /\ \E k \in {"j", "k", "Up", "Down"} : EditorKey(k)

\* C11: after a vertical move, with or without a count, the cursor is at the
\* end of its line when the line is shorter than the remembered column and at
\* exactly the remembered column when the line is at least as long; a
\* vertical move does not change the remembered column.
C11_ColumnMemory ==
    [][VerticalMove =>
        /\ cursor'[2] = Min(prev_cursor_col, Len(lines'[cursor'[1] + 1]))
        /\ prev_cursor_col' = prev_cursor_col]_vars

\* a vertical move has left the cursor at the end of a line shorter than the
\* remembered column
C11_Witness ==
    /\ prev_cursor_col = 3
    /\ cursor = <<1, 1>>
    /\ lines = Text

\* an immediate action in Normal mode with no command pending
Immediate ==
    /\ mode = "Normal"
    /\ cmd_state = "NoCommand"
    /\ \E k \in ImmediateKeys : EditorKey(k)

\* C15: in Normal mode with no command pending, each immediate action (p, u,
\* r, x and the mode switches a, A, i, I, o, O, v, V) leaves num_buf and
\* cmd_buf empty, whatever digits were buffered before it.
C15_ImmediateClearsPending ==
    [][Immediate => (num_buf' = <<>> /\ cmd_buf' = <<>>)]_vars

\* the single motion keys
MotionKeys == {"h", "j", "k", "l", "Left", "Right", "Up", "Down", "w", "b", "^", "$", "G"}

\* a motion key in Normal or Visual mode with no command pending
MotionKey ==
    /\ mode \in {"Normal", "Visual"}
    /\ cmd_state = "NoCommand"
    /\ \E k \in MotionKeys : EditorKey(k)

\* C16: in Normal or Visual mode with no command pending, every single motion
\* key (h, j, k, l, the arrows, w, b, ^, $, G) leaves num_buf empty, so that
\* a count typed before a motion does not reach a later command.
C16_MotionClearsCount == [][MotionKey => num_buf' = <<>>]_vars

\* C17: in Normal mode and in Visual mode, with no command pending, a digit
\* key appends its digit to the end of num_buf and changes nothing else:
\* mode, command state, cmd_buf, text and cursor stay.
C17_DigitAppends ==
    [][\A i \in 1..10 :
        (/\ mode \in {"Normal", "Visual"}
         /\ cmd_state = "NoCommand"
         /\ EditorKey(DigitChars[i]))
        => /\ num_buf' = Append(num_buf, i - 1)
           /\ UNCHANGED <<mode, cmd_state, cmd_buf, lines, cursor>>]_vars

\* C21: when the target t occurs on no column of the searched side of the
\* cursor line (after the cursor for f, before it for F), at every cursor
\* column, `f t` and `F t` end without error, leave the cursor and the text
\* as they were, empty num_buf and cmd_buf and set cmd_state to NoCommand.
C21_AbsentTargetIsNoop ==
    [][\A t \in {k \in FindKeys : IsChar(k)} :
        (/\ cmd_state \in {"FindForward", "FindBackward"}
         /\ EditorKey(t)
         /\ {i \in Holding(t) : IF cmd_state = "FindForward" THEN i > cursor[2]
                                                              ELSE i < cursor[2]} = {}) =>
            /\ done'.panic = FALSE
            /\ cursor' = cursor
            /\ lines' = lines
            /\ num_buf' = <<>>
            /\ cmd_buf' = <<>>
            /\ cmd_state' = "NoCommand"]_vars

\* the character keys of PendingKeys
HopChars == {k \in PendingKeys : IsChar(k)}

\* C22: after s in Normal mode with no command pending, whatever was typed
\* before, the next two character keys c1 and c2 form the hop key: after c1
\* the command state is still PrimeHop, and after c2 the buffer holds the
\* matches of exactly <<c1, c2>> and the command state is ExecuteHop.
C22_NextTwoKeysFormHopKey ==
    [][(mode = "Normal" /\ cmd_state = "NoCommand" /\ EditorKey("s")) =>
        \A c1, c2 \in HopChars :
            LET e1 == handle_input(Ed', c1)
                e2 == handle_input(e1, c2)
            IN /\ e1.cmd_state = "PrimeHop"
               /\ e2.cmd_state = "ExecuteHop"
               /\ e2.hop = set_hop_pattern(e1, <<c1, c2>>).hop]_vars

RECURSIVE Typed(_, _)
\* the editor after the keys of the sequence, one handle_input each
Typed(ed, keys) ==
    IF keys = <<>> THEN ed
    ELSE handle_input(Typed(ed, SubSeq(keys, 1, Len(keys) - 1)), keys[Len(keys)])

\* the digits typed between the hop key and the terminating key
HopDigits == {<<>>, <<"1">>}

\* the digits of the keys
DigitsOf(keys) == [i \in DOMAIN keys |-> to_digit(keys[i])]

\* C23: from the state where ExecuteHop is entered, the digits typed and then
\* the terminating key h move the cursor to the match whose index is the
\* base-10 number of exactly those digits (digits buffered before s do not
\* count), and leave the hop state of the buffer cleared, num_buf and
\* cmd_buf empty and the command state NoCommand.
C23_HopIndexIsDigitsSinceHop ==
    [][(cmd_state = "PrimeHop" /\ cmd_state' = "ExecuteHop" /\ NextHop) =>
        \A ds \in HopDigits :
            LET e == handle_input(Typed(Ed', ds), "h")
            IN /\ e.cursor = hop_to_idx(Ed', Base10(DigitsOf(ds))).cursor
               /\ e.hop = <<>>
               /\ e.num_buf = <<>>
               /\ e.cmd_buf = <<>>
               /\ e.cmd_state = "NoCommand"]_vars

\* the completions that Delete and Yank share
SharedCompletions == {"l", "w", "b"}

\* C24: from a state of Normal mode with no command pending, with any count
\* buffered, y c and d c leave the same text and the same cursor, for each
\* completion c of l, w and b.
C24_YankAsDelete ==
    [][(mode = "Normal" /\ cmd_state = "NoCommand" /\ EditorKey("d")) =>
        \A c \in SharedCompletions :
            LET del == handle_input(Ed', c)
                yank == Typed(Ed, <<"y", c>>)
            IN /\ yank.lines = del.lines
               /\ yank.cursor = del.cursor]_vars

\* the delete primitive of each completion of the claim
PrimitiveOf ==
    [c \in {"k", "h", "l", "w", "b"} |->
        CASE c = "k" -> "delete_line_up"
          [] c = "h" -> "delete_char"
          [] c = "l" -> "delete_next_char"
          [] c = "w" -> "delete_next_word"
          [] c = "b" -> "delete_word"]

\* the count N of a command: the base-10 number of num_buf, 1 without digits
CountOf(buf) == IF buf = <<>> THEN 1 ELSE Base10(buf)

\* C25: for each completion c of k, h, l, w and b, N d c leaves the text and
\* the cursor that c's delete primitive leaves when it is applied exactly N
\* times in sequence, once when no count is buffered.
C25_DeleteAppliesPrimitiveNTimes ==
    [][(mode = "Normal" /\ cmd_state = "NoCommand" /\ EditorKey("d")) =>
        \A c \in DOMAIN PrimitiveOf :
            LET e == handle_input(Ed', c)
                want == Times(Ed', CountOf(num_buf), PrimitiveOf[c])
            IN /\ e.panic = FALSE
               /\ e.lines = want.lines
               /\ e.cursor = want.cursor]_vars

\* C26: when legs of the synchronization of a save fail, the error that the
\* synchronization returns names exactly the legs that failed (the insert
\* leg as save_links, the delete leg as delete_links, the update leg as
\* update_links) and no leg that succeeded.
C26_ErrorNamesFailedLegs ==
    [][\A f \in SaveFaults(links) :
        (MainSave(f) /\ f.legs # {}) => error'.named = f.legs]_vars

\* what Alt-s makes of the open note under fault f (events.rs 449-460)
Saved(f) == save_note(SaveArgs, HasLinks(ta_links), f)

\* the rows of the notes table other than row id are those of before
OnlyNoteRow(id) ==
    \A n \in DOMAIN db_notes' : n # id => n \in DOMAIN db_notes /\ db_notes'[n] = db_notes[n]

C28_FailedSaveKeepsRunning ==
    [][\A f \in SaveFaults(links) :
        (MainSave(f) /\ IsFault(f)) =>
            /\ current_screen' = "Popup"
            /\ user_msg' \in {"Error saving note!", "Error saving note links!"}
            /\ app_state' = "Running"]_vars

\* map m with exactly one link added to `before` for the pending anchor: the
\* flags of a new link, the geometry of the anchor, the other links as before
AddsPendingLink(before, m) ==
    LET a == pending_link[1]
    IN /\ a.id \notin DOMAIN before
       /\ DOMAIN m = DOMAIN before \cup {a.id}
       /\ \A k \in DOMAIN before : m[k] = before[k]
       /\ m[a.id].saved = FALSE /\ m[a.id].updated = FALSE /\ m[a.id].deleted = FALSE
       /\ m[a.id].row = a.row
       /\ m[a.id].start_col = a.start_col
       /\ m[a.id].end_col = a.end_col

\* C29: when a link gesture is complete and the user chooses the target, a
\* note of the list or a new note, the choice does not fail and exactly one
\* link is added to the link map under the id of the new anchor, with saved,
\* updated and deleted false and the geometry of the anchor, the other links
\* unchanged; also when the title of the note was edited before.
C29_TargetAddsOneLink ==
    [][/\ NewLinkedNoteEnterList =>
            app_state' = "Running" /\ AddsPendingLink(links, links')
       /\ \A t \in Titles :
            (NewLinkedNoteEnterInput(t, NoFault) /\ ~TitleListed(t)) =>
                /\ app_state' = "Running"
                /\ AddsPendingLink(links, link_note(links, db_next_id).m)]_vars

\* a keystroke of the main screen that the editor received
Keystroke ==
    \/ \E kc \in KeyClasses : \E e \in KeyEffects(kc) : MainKey(kc, e)
    \/ \E e \in LinkKeyEffects : MainInsertLink(e)
    \/ \E e \in EnterKeyEffects : e.kind # "follow" /\ MainEnter(e, NoFault)

\* C30: a link whose deleted flag is true is in the map with deleted = TRUE
\* after every keystroke, undo and redo included; only a synchronization
\* takes it out of the map.
C30_DeletedStaysDeleted ==
    [][Keystroke =>
        \A k \in DOMAIN links :
            links[k].deleted => k \in DOMAIN links' /\ links'[k].deleted]_vars

\* the completion set of a pending command
CompletionSet(state) ==
    CASE state = "Delete" -> DELETE_COMMANDS
      [] state = "Yank" -> YANK_COMMANDS
      [] state = "GoTo" -> {GOTO_COMMAND}
      [] state \in {"FindForward", "FindBackward"} -> {k \in CompleteKeys : IsChar(k)}
      [] OTHER -> {}

\* a key of the completion set was received and the command ran to its end
Completes ==
    /\ \E k \in CompleteKeys \cap CompletionSet(cmd_state) : EditorKey(k)
    /\ done'.panic = FALSE

\* C31: after a command of Delete, Yank, GoTo, FindForward or FindBackward
\* completes, the command state is NoCommand and num_buf and cmd_buf are
\* empty.
C31_CompletionResets ==
    [][Completes => cmd_state' = "NoCommand" /\ num_buf' = <<>> /\ cmd_buf' = <<>>]_vars

\* a command with a count has completed
C31_Witness ==
    /\ done.reps > 0 /\ done.panic = FALSE
    /\ cmd_state = "NoCommand" /\ num_buf = <<>> /\ cmd_buf = <<>>

\* a key moved the cursor along its line: a horizontal motion with no command
\* pending, or a find that found its target
HorizontalMove ==
    /\ mode = "Normal"
    /\ \/ /\ cmd_state = "NoCommand"
          /\ \E k \in FindKeys \cap {"h", "l", "Left", "Right", "w", "b", "^", "$"} :
                EditorKey(k)
       \/ /\ cmd_state \in {"FindForward", "FindBackward"}
          /\ \E t \in {k \in FindKeys : IsChar(k)} : EditorKey(t)
          /\ cursor' # cursor
    /\ done'.panic = FALSE
    /\ cursor'[1] = cursor[1]

\* C32: after a cursor move that stays on the line (h, l, Left, Right, w, b,
\* ^, $, or an f or F that found its target) the remembered column is the
\* column of the cursor.
C32_HorizontalMoveRemembered == [][HorizontalMove => prev_cursor_col' = cursor'[2]]_vars


\* G received in Normal mode with no command pending
GoToEnd ==
    /\ mode = "Normal"
    /\ cmd_state = "NoCommand"
    /\ EditorKey("G")

\* C33: in Normal mode with no command pending, G puts the cursor on column 0
\* of the last line of the text, wherever the cursor was, and leaves the text
\* as it is.
C33_GoToEndOfNote ==
    [][GoToEnd => cursor' = <<Len(lines) - 1, 0>> /\ lines' = lines]_vars

\* G has come from the end of the first line: the cursor is on the last line
\* and the remembered column is still the one of the first line
C33_Witness ==
    /\ mode = "Normal"
    /\ cmd_state = "NoCommand"
    /\ num_buf = <<>>
    /\ cursor = <<Len(lines) - 1, 0>>
    /\ prev_cursor_col = 3
    /\ done.reps = -1


\* the rows a link map asks for in the table of note id: one for each link
\* that is not deleted, with the geometry and the target the link has now
LiveRows(m, id) ==
    {[to_db_link(m[k]) EXCEPT !.parent_note_id = id] : k \in {j \in DOMAIN m : ~m[j].deleted}}

\* C34: after every successful save with Alt-s, the persisted link rows of
\* the open note are exactly the links of the map that are not deleted, one
\* row for each link, with the link's row, columns and target
C34_RowsAreLiveLinks ==
    [][(MainSave(NoFault) /\ user_msg' = "Note saved!") =>
        /\ Range(DbLoadNoteLinks(db_links', note_id')) = LiveRows(links', note_id')
        /\ Len(DbLoadNoteLinks(db_links', note_id')) =
                Cardinality(LiveRows(links', note_id'))]_vars


\* the links of map m that a synchronization has nothing to write for
Unclassified(m) == DOMAIN m \ (ToUpdate(m) \cup ToInsert(m) \cup ToDelete(m))

\* C35: a successful synchronization leaves every link that was in none of
\* the sets to-update, to-insert and to-delete as it was, flags and geometry
C35_SyncKeepsUnclassified ==
    [][SavedWithLinks(NoFault) =>
        \A k \in Unclassified(links) : k \in DOMAIN links' /\ links'[k] = links[k]]_vars


\* the editor is in Normal mode with no command pending
Home(ed) == ~ed.panic /\ ed.mode = "Normal" /\ ed.cmd_state = "NoCommand"

RECURSIVE ReturnsIn(_, _)
\* some sequence of n keys, handled by handle_input alone, brings editor ed home
ReturnsIn(ed, n) ==
    IF n = 0 THEN Home(ed)
    ELSE \E k \in TrapKeys : ReturnsIn(handle_input(ed, k), n - 1)

\* the longest way home of a state that has one: two characters and h from
\* PrimeHop
ReturnDepth == 3

\* C36: from every reachable state of the editor some finite sequence of keys
\* handled by handle_input brings it back to Normal mode with no command
\* pending (the sequences of at most ReturnDepth keys are tried: a state
\* without one has none at all when every key keeps it among such states)
C36_NoTrap == \E n \in 0..ReturnDepth : ReturnsIn(Ed, n)


\* the editor is outside Normal mode with a command pending
PendingOutsideNormal(ed) == ed.mode \in {"Insert", "Visual"} /\ ed.cmd_state # "NoCommand"

\* C37: in Insert and in Visual mode no command is pending: in every
\* reachable state, and after every key handled from it (a key that would
\* switch the mode while a command is pending, a key handled in Insert or
\* Visual mode that would change the command state)
C37_PendingOnlyInNormal ==
    /\ ~PendingOutsideNormal(Ed)
    /\ \A k \in TrapKeys : ~PendingOutsideNormal(handle_input(Ed, k))

\* v was typed while a yank was pending, which abandoned the yank and did
\* not switch the mode; the next v switched to Visual mode
C37_Witness ==
    /\ mode = "Visual"
    /\ cmd_state = "NoCommand"
    /\ cmd_buf = <<"y", "v">>


\* C38: when the reconciliation runs after a key of the main screen, every id
\* of the link map is in the anchor table of the buffer and, when the map is
\* not empty, every id the buffer reports as deleted is in the map: no lookup
\* of check_link_deletion, check_link_edits and check_link_moved fails
C38_LookupsNeverFail ==
    [][\A kc \in KeyClasses : \A e \in KeyEffects(kc) :
        MainKey(kc, e) =>
            /\ DOMAIN links \subseteq DOMAIN AnchorsAfter(e)
            /\ (kc = "delete_key" /\ DOMAIN links # {}) =>
                    Range(DeletedIdsAfter(e)) \subseteq DOMAIN links
            /\ ~Reconcile(links, kc, AnchorsAfter(e), DeletedIdsAfter(e)).panic]_vars


\* a note was loaded: Enter in a link of the text, or Enter on the list of
\* the LoadNote screen, and load_note returned Ok
Loaded ==
    /\ \/ \E e \in {x \in EnterKeyEffects : x.kind = "follow"} : MainEnter(e, NoFault)
       \/ LoadNoteEnter(NoFault)
    /\ app_state' = "Running"
    /\ current_screen' = "Main"

\* C39: after load_note(id) returned Ok the title and the link map of the
\* editor are the persisted title and link rows of note id as they are after
\* the save of the note that was open, also when id is the open note
C39_LoadShowsPersisted ==
    [][Loaded =>
        /\ note_id' \in DOMAIN db_notes'
        /\ title' = db_notes'[note_id'].title
        /\ links' = LoadedLinks(db_notes', db_links', note_id')]_vars


\* C40: the selected index of a non-empty note list is smaller than the
\* number of its notes in every state, also after a note was deleted, and
\* Enter on the load screen finds note_identifiers[selected]
C40_SelectedInRange ==
    [][/\ Len(note_identifiers') > 0 => selected' < Len(note_identifiers')
       /\ LoadNoteEnter(NoFault) => selected < Len(note_identifiers)]_vars

====
